---- MODULE Spec2Model ----
(***************************************************************************)
(* Model of the recorder pipeline of import_logs.py: the parser thread     *)
(* (Parser.parse, Recorder.add_hits, Recorder.wait_empty, main), the       *)
(* recorder threads (Recorder._run_bulk / _run_single, _record_hits) and   *)
(* the HTTP client's retry and authentication wrappers                     *)
(* (PiwikHttpUrllib._call_wrapper, _call_authentication_wrapper).          *)
(***************************************************************************)
EXTENDS Integers, Sequences, FiniteSets, TLC

\* ------------------------------------------------------------------------
\* Bounds of the model
\* ------------------------------------------------------------------------
MaxLines == 3
MaxRecorders == 2
MaxPayloadSize == 2
MaxRetryBound == 2
MaxThreads == 2
MaxAdvance == 2
MaxIncrements == 4
MaxResolves == 2
MaxLogLines == 2
MaxMatching == 3
\* input files given on the command line
MaxFiles == 2
\* lines read from one of them
MaxFileLines == 3
\* nesting of the containers below a parameter's name
MaxDepth == 2
\* elements of a list
MaxListLen == 2
\* lines of a log that several filters look at
MaxCheckedLines == 1
\* API calls each thread makes
MaxApiCalls == 1
\* tokens the /auth/token endpoint issues in a run
MaxTokens == 3

\* ------------------------------------------------------------------------
\* Program constants
\* ------------------------------------------------------------------------
QueueMaxSize == 2
\* --sleep-between-requests-ms: default=False, the option was not given
NotGiven == -1

None == "None"
Filename == "access.log"
KnownHost == "known.example"
UnknownHost == "unknown.example"
ReplayIdParams == <<"uid", "cid", "_id", "cip">>

NoArgs == [p \in {} |-> "a"]

\* the lines of a log written by a web server: client IP and host
LogInputs ==
    { [ip |-> "a", host |-> KnownHost, args |-> NoArgs],
      [ip |-> "b", host |-> KnownHost, args |-> NoArgs],
      [ip |-> "b", host |-> UnknownHost, args |-> NoArgs] }

\* the lines of a log of tracker requests (replay mode): client IP and the
\* visitor parameters of the logged query string
ReplayInputs ==
    { [ip |-> "a", host |-> KnownHost,
       args |-> [p \in {"uid", "cip"} |-> IF p = "uid" THEN "b" ELSE "a"]],
      [ip |-> "a", host |-> KnownHost,
       args |-> [p \in {"cid", "_id"} |-> IF p = "cid" THEN "a" ELSE "b"]],
      [ip |-> "b", host |-> KnownHost, args |-> NoArgs] }

VARIABLES
    options,      \* config.options: recorders, recorder_max_payload_size,
                  \* disable_bulk_tracking, max_attempts, replay_tracking
    hashseed,     \* the process's string hash: visitor id -> hash()
    ppc,          \* position of the main thread
    lineno,       \* Parser.parse: lineno (lines read so far, minus one)
    buf,          \* Parser.parse: hits
    groups,       \* Recorder.add_hits: hits_by_client
    puti,         \* Recorder.add_hits: index of the next queue.put
    eof,          \* Parser.parse: the add_hits in progress is the last chunk
    waiti,        \* Recorder.wait_empty: recorder being waited for
    joining,      \* Recorder._wait_empty: queue.empty() was seen, in join()
    interrupted,  \* main: KeyboardInterrupt was caught
    queue,        \* recorder.queue, per recorder
    unfinished,   \* recorder.queue.unfinished_tasks, per recorder
    wpc,          \* position of each recorder thread
    batch,        \* _record_hits: hits, per recorder
    rest,         \* _run_single: hits of unrecorded_hits still to record
    payload,      \* _record_hits: data["requests"] (the hits of the requests)
    errors,       \* _call_wrapper: errors
    posts,        \* POSTs sent by the current piwik.call
    sleeps,       \* retry sleeps of the current piwik.call
    refreshes,    \* config.init_token_auth() calls of the current piwik.call
    lastCode,     \* HTTP status of the last response of the current call
                  \* (0: none yet, or an error without a status)
    lastFail,     \* last failed attempt: requests sent and backend's tracked
    lastPost,     \* requests carried by the most recent POST
    exitCode,     \* exit code of the process, negative while it runs
    fatal,        \* the fatal_error call that ended the process
    recorded,     \* hits counted by stats.count_lines_recorded
    flushed,      \* every hit handed to Recorder.add_hits, in order
    sent,         \* per recorder, the hits handed to piwik.call, in order
    accepted,     \* every hit appended to Parser.parse's hits, in order
    no_site,      \* stats.count_lines_no_site: increment() calls made
    sites_ignored,\* stats.piwik_sites_ignored
    since_sleep,  \* per recorder, with --sleep-between-requests-ms: tracker
                  \* requests sent since _throttle's last time.sleep
    \* Statistics.Counter used by several threads
    counter,      \* Counter.counter: the next value of itertools.count(1)
    value,        \* Counter.value
    tpc,          \* position of each thread in increment / advance
    tn,           \* increment: the result of next(self.counter), per thread
    todo,         \* advance: iterations of range(n) left, per thread
    \* DynamicResolver used by several recorder threads
    cache,        \* DynamicResolver._cache: host -> site id or None
    api_calls,    \* piwik.auth_call_api calls for the app-url endpoint, per host
    rpc,          \* position of each thread in resolver.resolve
    rhost,        \* _resolve_by_host: hit.host, per thread
    rdone,        \* resolver.resolve calls made, per thread
    \* one log, line by line, through the filters and the request builder
    line_options, \* config.options: the options the filters and rules read
    stats,        \* the counters of Statistics: increment() calls made
    lines_skipped,\* lines passed over because of --skip
    lpc,          \* position of the run
    last_line,    \* Parser.parse: the fields of the line matched last
    last_hit,     \* the Hit of the line read last
    outcome,      \* what became of the line read last
    request,      \* the arguments _get_hit_args built for that hit
    total_lines_ignored, \* print_summary: total_lines_ignored
    \* format detection
    file_seen,    \* what Parser.check_format sees of the file, and the options
    format_found, \* Parser.check_format: the format returned
    iis_warned,   \* check_for_iis_option logged its warning
    fpc,          \* position of the detection
    \* main's loop over the input files with --debug-request-limit
    debug_request_limit, \* config.options.debug_request_limit (0: not given)
    filenames,    \* config.filenames: how many files were given
    fileno,       \* main: the file parser.parse is called on
    mpc,          \* position of main
    file_lineno,  \* Parser.parse: lineno
    valid_lines_count, \* Parser.parse: valid_lines_count
    file_hits,    \* Parser.parse: hits
    created_hits, \* the Hit objects Parser.parse appended to hits
    added_hits,   \* the hits passed to Recorder.add_hits
    limit_exits,  \* "Exceeded limit specified in --debug-request-limit" logged
    \* UrlHelper.convert_array_args on the arguments of one request
    structure,    \* the nested structure the request's parameters stand for
    serialized,   \* its parameters: the (name, value) pairs of the query
    converted,    \* what convert_array_args returns for them
    apc,          \* position of the conversion
    \* PiwikHttpUrllib's API calls made by several threads
    api_options,  \* config.options: auth_user, max_attempts
    piwik_token,  \* config.piwik_token: 0 for None, else the n-th token issued
    tokens_issued,\* tokens the /auth/token endpoint has issued
    api_fatal,    \* fatal_error ended the process
    api_pc,       \* position of each thread
    api_entry,    \* the method the thread called: call_api or auth_call_api
    api_headers,  \* _call_api: headers["Authorization"], per thread
    api_second,   \* _call_authentication_wrapper: in its except clause
    api_errors,   \* _call_wrapper: errors, per thread
    api_exc,      \* the exception being raised in the thread
    api_invalid,  \* the thread's call got a response that is not JSON
    api_result,   \* how the thread's last call ended
    api_done,     \* calls finished, per thread
    api_sent      \* the Authorization headers of the API requests sent

vars == <<options, hashseed, ppc, lineno, buf, groups, puti, eof, waiti,
          joining, interrupted, queue, unfinished, wpc, batch, rest, payload,
          errors, posts, sleeps, refreshes, lastCode, lastFail, lastPost,
          exitCode, fatal, recorded, flushed, sent, accepted, no_site,
          sites_ignored, since_sleep, counter, value, tpc, tn, todo, cache, api_calls,
          rpc, rhost, rdone, line_options, stats, lines_skipped, lpc,
          last_line, last_hit, outcome, request, total_lines_ignored,
          file_seen, format_found, iis_warned, fpc, debug_request_limit,
          filenames, fileno, mpc, file_lineno, valid_lines_count, file_hits,
          created_hits, added_hits, limit_exits, structure, serialized,
          converted, apc, api_options, piwik_token, tokens_issued,
          api_fatal, api_pc, api_entry, api_headers, api_second, api_errors,
          api_exc, api_invalid, api_result, api_done, api_sent>>

\* the variables of the recorder pipeline
pipelineVars == <<options, hashseed, ppc, lineno, buf, groups, puti, eof,
                  waiti, joining, interrupted, queue, unfinished, wpc, batch,
                  rest, payload, errors, posts, sleeps, refreshes, lastCode,
                  lastFail, lastPost, exitCode, fatal, recorded, flushed, sent,
                  accepted, no_site, sites_ignored, since_sleep>>
\* the variables of the Statistics.Counter under concurrent use
counterVars == <<counter, value, tpc, tn, todo>>
\* the variables of the DynamicResolver under concurrent use
resolverVars == <<cache, api_calls, rpc, rhost, rdone>>
\* the variables the recorder pipeline leaves alone
\* the variables of the run over one log, line by line
lineVars == <<line_options, stats, lines_skipped, lpc, last_line, last_hit,
              outcome, request, total_lines_ignored>>
\* the variables of the format detection
formatVars == <<file_seen, format_found, iis_warned, fpc>>
\* the variables of main's loop over the files
filesVars == <<debug_request_limit, filenames, fileno, mpc, file_lineno,
               valid_lines_count, file_hits, created_hits, added_hits,
               limit_exits>>
\* the variables of the conversion of array arguments
argsVars == <<structure, serialized, converted, apc>>
\* the variables of the API calls
apiVars == <<api_options, piwik_token, tokens_issued, api_fatal, api_pc,
             api_entry, api_headers, api_second, api_errors, api_exc,
             api_invalid, api_result, api_done, api_sent>>
auxVars == <<counterVars, resolverVars, lineVars, formatVars, filesVars, argsVars, apiVars>>
notCounterVars == <<pipelineVars, resolverVars, lineVars, formatVars, filesVars,
                    argsVars, apiVars>>
notResolverVars == <<pipelineVars, counterVars, lineVars, formatVars, filesVars,
                     argsVars, apiVars>>
notLineVars == <<pipelineVars, counterVars, resolverVars, formatVars, filesVars,
                 argsVars, apiVars>>
notFormatVars == <<pipelineVars, counterVars, resolverVars, lineVars, filesVars,
                   argsVars, apiVars>>
notFilesVars == <<pipelineVars, counterVars, resolverVars, lineVars, formatVars,
                  argsVars, apiVars>>
notArgsVars == <<pipelineVars, counterVars, resolverVars, lineVars, formatVars,
                 filesVars, apiVars>>

notApiVars == <<pipelineVars, counterVars, resolverVars, lineVars, formatVars,
                filesVars, argsVars>>

parserVars == <<ppc, lineno, buf, groups, puti, eof, waiti, joining,
                interrupted, flushed, accepted>>
callVars == <<errors, posts, sleeps, refreshes, lastCode, lastFail, lastPost>>
workerVars == <<wpc, batch, rest, payload, sent>>
statsVars == <<no_site, sites_ignored>>

Recorders == 0 .. (options.recorders - 1)

\* ------------------------------------------------------------------------
\* Helpers on sequences
\* ------------------------------------------------------------------------
Range(s) == { s[i] : i \in 1 .. Len(s) }

Abs(n) == IF n < 0 THEN -n ELSE n

\* data["requests"][tracked:]
Slice(s, from) == IF from >= Len(s) THEN <<>> ELSE SubSeq(s, from + 1, Len(s))

\* ------------------------------------------------------------------------
\* Hit.get_visitor_id_hash
\* ------------------------------------------------------------------------

\* the visitor id is always the client IP
get_visitor_id_ip(hit) == hit.ip

get_visitor_id(hit) ==
    LET RECURSIVE FirstParam(_, _, _)
        FirstParam(args, names, default) ==
            IF names = <<>> THEN default
            ELSE IF Head(names) \in DOMAIN args THEN args[Head(names)]
            ELSE FirstParam(args, Tail(names), default)
    IN
    IF options.replay_tracking
    THEN FirstParam(hit.args, ReplayIdParams, hit.ip)
    ELSE hit.ip

\* ------------------------------------------------------------------------
\* Recorder.add_hits: hits_by_client
\* ------------------------------------------------------------------------
ShardOf(hit) ==
    \* Hit.get_visitor_id_hash: abs(hash(visitor_id))
    LET get_visitor_id_hash(one) == Abs(hashseed[get_visitor_id(one)])
    IN  get_visitor_id_hash(hit) % options.recorders

RECURSIVE hits_by_client_prepend(_, _)
hits_by_client_prepend(all_hits, acc) ==
    IF all_hits = <<>> THEN acc
    ELSE LET hit == Head(all_hits)
             i == ShardOf(hit)
         IN  hits_by_client_prepend(Tail(all_hits),
                                    [acc EXCEPT ![i] = <<hit>> \o acc[i]])

RECURSIVE hits_by_client(_, _)
hits_by_client(all_hits, acc) ==
    IF all_hits = <<>> THEN acc
    ELSE LET hit == Head(all_hits)
             i == ShardOf(hit)
         IN  hits_by_client(Tail(all_hits),
                            [acc EXCEPT ![i] = Append(acc[i], hit)])

EmptyGroups == [r \in Recorders |-> <<>>]

\* ------------------------------------------------------------------------
\* One line of a log through Parser.parse and Recorder._get_hit_args.
\* Strings the code takes apart (paths, hosts, user agents, URLs) are
\* sequences of tokens; Join gives the string.
\* ------------------------------------------------------------------------
RECURSIVE Join(_)
Join(tokens) == IF tokens = <<>> THEN "" ELSE Head(tokens) \o Join(Tail(tokens))

\* str.lower() of a token
Lower(token) ==
    CASE token = "PNG" -> "png"
      [] token = "PPMS" -> "ppms"
      [] token = "PHP" -> "php"
      [] token = "Googlebot" -> "googlebot"
      [] token = "GOOGLEBOT" -> "googlebot"
      [] token = "MyAgent" -> "myagent"
      [] token = "Mozilla" -> "mozilla"
      [] OTHER -> token

LowerAll(tokens) == [i \in 1 .. Len(tokens) |-> Lower(tokens[i])]

\* the part of a string after the last separator (str.rsplit(sep)[-1],
\* str.split(sep)[-1]); the whole string when there is none
AfterLast(tokens, sep) ==
    LET at == {i \in 1 .. Len(tokens) : tokens[i] = sep}
        last == IF at = {} THEN 0 ELSE CHOOSE i \in at : \A j \in at : j <= i
    IN  SubSeq(tokens, last + 1, Len(tokens))

\* str.endswith
EndsWith(tokens, suffix) ==
    /\ Len(suffix) <= Len(tokens)
    /\ SubSeq(tokens, Len(tokens) - Len(suffix) + 1, Len(tokens)) = suffix

\* fnmatch.fnmatch for a pattern with at most one "*"
fnmatch(name, pat) ==
    LET at == {i \in 1 .. Len(pat) : pat[i] = "*"}
    IN  IF at = {} THEN name = pat
        ELSE LET k == CHOOSE i \in at : TRUE
                 pre == SubSeq(pat, 1, k - 1)
                 suf == SubSeq(pat, k + 1, Len(pat))
             IN  /\ Len(name) >= Len(pre) + Len(suf)
                 /\ SubSeq(name, 1, Len(pre)) = pre
                 /\ EndsWith(name, suf)

quote(tokens) ==
    \* urllib.parse.quote(s, ""): every reserved character is percent-encoded
    LET QuoteToken(token) ==
            CASE token = ":" -> "%3A"
              [] token = "/" -> "%2F"
              [] token = "?" -> "%3F"
              [] token = "=" -> "%3D"
              [] token = "&" -> "%26"
              [] OTHER -> token
    IN
                 Join([i \in 1 .. Len(tokens) |-> QuoteToken(tokens[i])])

STATIC_EXTENSIONS ==
    {"gif", "jpg", "jpeg", "png", "bmp", "ico", "svg", "svgz", "ttf", "otf",
     "eot", "woff", "woff2", "class", "swf", "css", "js", "xml", "webp"}

STATIC_FILES == {"robots.txt"}

DOWNLOAD_EXTENSIONS ==
    {"7z", "aac", "arc", "arj", "asf", "asx", "avi", "bin", "csv", "deb",
     "dmg", "doc", "docx", "exe", "flac", "flv", "gz", "gzip", "hqx",
     "ibooks", "jar", "json", "mpg", "mp2", "mp3", "mp4", "mpeg", "mov",
     "movie", "msi", "msp", "odb", "odf", "odg", "odp", "ods", "odt", "ogg",
     "ogv", "pdf", "phps", "ppt", "pptx", "qt", "qtm", "ra", "ram", "rar",
     "rpm", "rtf", "sea", "sit", "tar", "tbz", "bz2", "tgz", "torrent",
     "txt", "wav", "webm", "wma", "wmv", "wpd", "xls", "xlsx", "xml", "xsd",
     "z", "zip", "azw3", "epub", "mobi", "apk"}

EXCLUDED_USER_AGENTS ==
    {"adsbot-google", "ask jeeves", "baidubot", "bot-", "bot/", "ccooter/",
     "crawl", "curl", "echoping", "exabot", "feed", "googlebot",
     "ia_archiver", "java/", "libwww", "mediapartners-google", "msnbot",
     "netcraftsurvey", "panopta", "pingdom.com_bot_", "robot", "spider",
     "surveybot", "twiceler", "voilabot", "yahoo", "yandex", "zabbix",
     "googlestackdrivermonitoring"}

\* the counters of Statistics
CounterNames ==
    {"count_lines_parsed", "count_lines_recorded", "count_lines_invalid",
     "count_lines_filtered", "count_lines_no_site",
     "count_lines_hostname_skipped", "count_lines_static",
     "count_lines_skipped_user_agent", "count_lines_skipped_http_errors",
     "count_lines_skipped_http_redirects", "count_lines_downloads",
     "count_lines_skipped_downloads"}

\* Counter.increment() of each of a set of counters
Increment(st, names) == [c \in CounterNames |-> IF c \in names THEN st[c] + 1 ELSE st[c]]

\* ------------------------------------------------------------------------
\* The options of a run and the lines of its log
\* ------------------------------------------------------------------------
KnownHostTokens == <<"known", ".", "example">>
OtherHostTokens == <<"other", ".", "example">>

DefaultLineOptions ==
    [ replay_tracking |-> FALSE,
      replay_tracking_expected_tracker_file |-> <<>>,
      enable_static |-> FALSE,
      download_extensions |-> <<>>,
      extra_download_extensions |-> <<>>,
      enable_http_errors |-> FALSE,
      enable_http_redirects |-> FALSE,
      enable_bots |-> FALSE,
      excluded_useragents |-> {},
      hostnames |-> {},
      excluded_paths |-> {},
      included_paths |-> {},
      exclude_host |-> {},
      include_host |-> {},
      exclude_older_than |-> 0,
      exclude_newer_than |-> 0,
      seconds_to_add_to_date |-> 0,
      skip |-> 0,
      title_category_delimiter |-> "/" ]

NoQuery == <<>>

DefaultLine ==
    [ matches |-> TRUE,
      status |-> <<"2", "0", "0">>,
      path |-> <<"/", "index", ".", "html">>,
      query |-> NoQuery,
      host |-> KnownHostTokens,
      user_agent |-> <<"Mozilla", "/", "5.0">>,
      referrer |-> <<>>,
      date_ok |-> TRUE,
      date |-> 172800,
      timezone |-> <<>> ]

\* the lines explored: each group varies the fields one group of filters
\* looks at
LineChoices ==
    \* the timezone group of a line, character by character; an empty group
    \* stands for a format without timezone
    LET TimezoneChoices ==
            { <<>>,
              <<"+", "0", "0", "0", "0">>, <<"+", "0", "5", "3", "0">>,
              <<"-", "0", "5", "3", "0">>, <<"-", "0", "0", "3", "0">>,
              <<"+", "0", "1", ":", "0", "0">>, <<"-", "1", "2", "0", "0">>,
              <<"U", "T", "C">> }
        \* the dates of the lines, in seconds since 2024-01-01 00:00:00
        DateChoices == {86400, 172800, 259200}
        StatusChoicesOfLines ==
            { <<"2", "0", "0">>, <<"3", "0", "1">>, <<"3", "0", "4">>,
              <<"4", "0", "4">>, <<"5", "0", "0">> }
        UserAgentChoices ==
            { <<"Mozilla", "/", "5.0">>, <<"Googlebot", "/", "2.1">>,
              <<"GOOGLEBOT", "/", "2.1">>, <<"MyAgent", "/", "1.0">> }
        \* a logged tracker request that carries visit custom variables
        CvarQuery ==
            << [k |-> "idsite", v |-> "3"], [k |-> "rec", v |-> "1"],
               [k |-> "_cvar", v |-> "{\"1\":[\"k\",\"v\"]}"] >>
        \* query strings, as the list of their name=value parts
        QueryChoices ==
            { NoQuery,
              << [k |-> "idsite", v |-> "3"], [k |-> "rec", v |-> "1"],
                 [k |-> "url", v |-> "http%3A%2F%2Fa%2Fb"], [k |-> "uid", v |-> "alice"] >>,
              << [k |-> "idsite", v |-> "3"], [k |-> "uid", v |-> "bob"],
                 [k |-> "uid", v |-> "alice"] >>,
              << [k |-> "idsite", v |-> ""], [k |-> "uid", v |-> "alice"] >>,
              << [k |-> "uid", v |-> "alice"] >> }
        TrackerPathChoices ==
            { <<"/", "ppms", ".", "php">>, <<"/", "PPMS", ".", "PHP">>,
              <<"/", "js", "/">>, <<"/", "track", ".", "php">>,
              <<"/", "img", ".", "PNG">> }
        PathChoices ==
            { <<"/", "index", ".", "html">>, <<"/", "img", ".", "PNG">>,
              <<"/", "doc", ".", "pdf">>, <<"/", "feed", ".", "xml">>,
              <<"/", "robots", ".", "txt">>, <<"/", "a", ".", "foo">>,
              <<"/", "admin", "/", "x">> }
        ReferrerTokens == <<"http", ":", "/", "/", "ref", "/">>
    IN
    { [DefaultLine EXCEPT !.path = p] : p \in PathChoices }
    \cup
    { [DefaultLine EXCEPT !.status = st, !.referrer = rf] :
        st \in StatusChoicesOfLines, rf \in {<<>>, ReferrerTokens} }
    \cup
    { [DefaultLine EXCEPT !.status = <<"4", "0", "4">>,
                          !.path = <<"/", "doc", ".", "pdf">>] }
    \cup
    { [DefaultLine EXCEPT !.host = h, !.date = d] :
        h \in {KnownHostTokens, OtherHostTokens}, d \in DateChoices }
    \cup
    { [DefaultLine EXCEPT !.timezone = tz] : tz \in TimezoneChoices }
    \cup
    { [DefaultLine EXCEPT !.user_agent = ua] : ua \in UserAgentChoices }
    \cup
    \* a line whose host group is empty
    { [DefaultLine EXCEPT !.host = <<>>] }
    \cup
    { [DefaultLine EXCEPT !.path = <<"/", "ppms", ".", "php">>,
                          !.query = q, !.user_agent = ua] :
        q \in {qq \in QueryChoices : Len(qq) = 4} \cup {CvarQuery},
        ua \in UserAgentChoices }
    \cup
    { [DefaultLine EXCEPT !.date_ok = FALSE],
      [DefaultLine EXCEPT !.matches = FALSE] }
    \cup
    { [DefaultLine EXCEPT !.path = p, !.query = q] :
        p \in TrackerPathChoices, q \in QueryChoices }
    \cup
    { [DefaultLine EXCEPT !.path = <<"/", "ppms", ".", "php">>,
                          !.query = q, !.status = st] :
        q \in {qq \in QueryChoices : Len(qq) = 4},
        st \in {<<"4", "0", "4">>, <<"3", "0", "1">>} }

\* ------------------------------------------------------------------------
\* Configuration._parse_extension_args
\* ------------------------------------------------------------------------
\* config.options.download_extensions after _parse_extension_args
download_extensions_of(opts) ==
    (IF opts.download_extensions # <<>>
     THEN Range(opts.download_extensions)
     ELSE DOWNLOAD_EXTENSIONS)
    \cup Range(opts.extra_download_extensions)

\* ------------------------------------------------------------------------
\* Parser.check_*: each gives whether the hit is kept, the hit as it leaves
\* the method and the counters the method incremented
\* ------------------------------------------------------------------------
Checked(ok, h, counted) == [ok |-> ok, hit |-> h, counted |-> counted]

\* every extension of the default list is a download, whatever
\* --download-extensions says
check_download_defaultList(opts, h) ==
    IF h.extension \in download_extensions_of(opts) \cup DOWNLOAD_EXTENSIONS
    THEN Checked(TRUE, [h EXCEPT !.is_download = TRUE], {"count_lines_downloads"})
    ELSE Checked(TRUE, h, {})

check_download(opts, h) ==
    \* the module's DOWNLOAD_EXTENSIONS after _parse_extension_args: without
    \* --download-extensions the update() of the extra extensions is made on
    \* the module's own set
    LET DOWNLOAD_EXTENSIONS_of(o) ==
            IF o.download_extensions # <<>>
            THEN DOWNLOAD_EXTENSIONS
            ELSE DOWNLOAD_EXTENSIONS \cup Range(o.extra_download_extensions)
    IN
    IF h.extension \in download_extensions_of(opts)
    THEN Checked(TRUE, [h EXCEPT !.is_download = TRUE], {"count_lines_downloads"})
    ELSE IF h.extension \in DOWNLOAD_EXTENSIONS_of(opts)
    THEN Checked(FALSE, h, {"count_lines_skipped_downloads"})
    ELSE Checked(TRUE, h, {})

check_hostname(opts, h) ==
    IF opts.hostnames = {} THEN Checked(TRUE, h, {})
    ELSE IF \E pattern \in opts.hostnames : fnmatch(h.host, pattern)
    THEN Checked(TRUE, h, {})
    ELSE Checked(FALSE, h, {"count_lines_hostname_skipped"})

\* every status in the 4xx and 5xx ranges is tagged, in replay mode too
check_http_error_tagsInReplay(opts, h) ==
    IF h.status[1] \in {"4", "5"}
    THEN IF opts.enable_http_errors \/ opts.replay_tracking
         THEN Checked(TRUE, [h EXCEPT !.is_error = TRUE], {})
         ELSE Checked(FALSE, h, {"count_lines_skipped_http_errors"})
    ELSE Checked(TRUE, h, {})

check_http_error(opts, h) ==
    IF h.status[1] \in {"4", "5"}
    THEN IF opts.replay_tracking
         THEN Checked(TRUE, h, {})
         ELSE IF opts.enable_http_errors
         THEN Checked(TRUE, [h EXCEPT !.is_error = TRUE], {})
         ELSE Checked(FALSE, h, {"count_lines_skipped_http_errors"})
    ELSE Checked(TRUE, h, {})

\* status 304 is a redirect like every other status starting with 3
check_http_redirect_304too(opts, h) ==
    IF h.status[1] = "3"
    THEN IF opts.enable_http_redirects
         THEN Checked(TRUE, [h EXCEPT !.is_redirect = TRUE], {})
         ELSE Checked(FALSE, h, {"count_lines_skipped_http_redirects"})
    ELSE Checked(TRUE, h, {})

check_http_redirect(opts, h) ==
    IF h.status[1] = "3" /\ h.status # <<"3", "0", "4">>
    THEN IF opts.enable_http_redirects
         THEN Checked(TRUE, [h EXCEPT !.is_redirect = TRUE], {})
         ELSE Checked(FALSE, h, {"count_lines_skipped_http_redirects"})
    ELSE Checked(TRUE, h, {})

check_path(opts, h) ==
    IF \E excluded_path \in opts.excluded_paths : fnmatch(h.path, excluded_path)
    THEN Checked(FALSE, h, {})
    ELSE IF opts.included_paths # {}
    THEN Checked(\E included_path \in opts.included_paths :
                     fnmatch(h.path, included_path), h, {})
    ELSE Checked(TRUE, h, {})

check_static(opts, h) ==
    IF h.extension \in STATIC_EXTENSIONS \/ Join(AfterLast(h.path, "/")) \in STATIC_FILES
    THEN IF opts.enable_static
         THEN Checked(TRUE, [h EXCEPT !.is_download = TRUE], {})
         ELSE Checked(FALSE, h, {"count_lines_static"})
    ELSE Checked(TRUE, h, {})

\* Configuration: options.excluded_useragents, lower-cased
excluded_useragents_of(opts) == {Lower(s) : s \in opts.excluded_useragents}

\* the user agent is compared as it is in the log
check_user_agent_caseSensitive(opts, h) ==
    IF \E i \in 1 .. Len(h.user_agent) :
           h.user_agent[i] \in EXCLUDED_USER_AGENTS \cup excluded_useragents_of(opts)
    THEN IF opts.enable_bots
         THEN Checked(TRUE, [h EXCEPT !.is_robot = TRUE], {})
         ELSE Checked(FALSE, h, {"count_lines_skipped_user_agent"})
    ELSE Checked(TRUE, h, {})

check_user_agent(opts, h) ==
    IF \E i \in 1 .. Len(h.user_agent) :
           Lower(h.user_agent[i]) \in EXCLUDED_USER_AGENTS \cup excluded_useragents_of(opts)
    THEN IF opts.enable_bots
         THEN Checked(TRUE, [h EXCEPT !.is_robot = TRUE], {})
         ELSE Checked(FALSE, h, {"count_lines_skipped_user_agent"})
    ELSE Checked(TRUE, h, {})

\* the methods in the order they are defined in the class
check_methods_definitionOrder ==
    <<"check_hostname", "check_static", "check_download", "check_user_agent",
      "check_http_error", "check_http_redirect", "check_path">>

\* Parser.__init__: inspect.getmembers gives the methods sorted by name
check_methods ==
    <<"check_download", "check_hostname", "check_http_error",
      "check_http_redirect", "check_path", "check_static", "check_user_agent">>

CallCheck(method, opts, h) ==
    CASE method = "check_download" -> check_download(opts, h)
      [] method = "check_hostname" -> check_hostname(opts, h)
      [] method = "check_http_error" -> check_http_error(opts, h)
      [] method = "check_http_redirect" -> check_http_redirect(opts, h)
      [] method = "check_path" -> check_path(opts, h)
      [] method = "check_static" -> check_static(opts, h)
      [] method = "check_user_agent" -> check_user_agent(opts, h)

\* all(method(hit) for method in self.check_methods): stops at the first
\* method that returns False
RECURSIVE all_checks(_, _, _, _)
all_checks(methods, opts, h, counted) ==
    IF methods = <<>> THEN Checked(TRUE, h, counted)
    ELSE LET r == CallCheck(Head(methods), opts, h)
         IN  IF r.ok
             THEN all_checks(Tail(methods), opts, r.hit, counted \cup r.counted)
             ELSE Checked(FALSE, r.hit, counted \cup r.counted)

\* ------------------------------------------------------------------------
\* Parser.parse: the replay branch and Parser.is_filtered
\* ------------------------------------------------------------------------
\* the four default files are accepted next to a configured suffix
is_hit_for_tracker_defaultsToo(opts, h) ==
    LET filesToCheck ==
            { <<"piwik", ".", "php">>, <<"ppms", ".", "php">>,
              <<"/", "js", "/">>, <<"/", "js", "/", "tracker", ".", "php">> }
            \cup (IF opts.replay_tracking_expected_tracker_file # <<>>
                  THEN {opts.replay_tracking_expected_tracker_file}
                  ELSE {})
        lowerPath == LowerAll(h.path)
    IN  \E file \in filesToCheck : EndsWith(lowerPath, file)

is_hit_for_tracker(opts, h) ==
    LET filesToCheck ==
            IF opts.replay_tracking_expected_tracker_file # <<>>
            THEN {opts.replay_tracking_expected_tracker_file}
            ELSE { <<"piwik", ".", "php">>, <<"ppms", ".", "php">>,
                   <<"/", "js", "/">>, <<"/", "js", "/", "tracker", ".", "php">> }
        lowerPath == LowerAll(h.path)
    IN  \E file \in filesToCheck : EndsWith(lowerPath, file)

\* urllib.parse.parse_qs followed by v.pop() of every list: the names with
\* a non-blank value, each with its last value, unquoted
parse_qs(query) ==
    \* urllib.parse.unquote of a query-string value
    LET unquote(v) == IF v = "http%3A%2F%2Fa%2Fb" THEN "http://a/b" ELSE v
        names == {query[i].k : i \in {j \in 1 .. Len(query) : query[j].v # ""}}
        last(n) == CHOOSE i \in 1 .. Len(query) :
                       /\ query[i].k = n /\ query[i].v # ""
                       /\ \A j \in 1 .. Len(query) :
                              (query[j].k = n /\ query[j].v # "") => j <= i
    IN  [n \in names |-> unquote(query[last(n)].v)]

\* dict.update
Update(a, b) ==
    [k \in DOMAIN a \cup DOMAIN b |-> IF k \in DOMAIN b THEN b[k] ELSE a[k]]

is_filtered(opts, h) ==
    \/ h.host \in opts.exclude_host
    \/ opts.include_host # {} /\ h.host \notin opts.include_host
    \/ opts.exclude_older_than # 0 /\ h.date < opts.exclude_older_than
    \/ opts.exclude_newer_than # 0 /\ h.date > opts.exclude_newer_than

NoArgsOfHit == [k \in {} |-> ""]

\* hit = Hit(...) and the fields read from the format's groups
new_hit(line) ==
    [ status |-> line.status,
      path |-> line.path,
      query |-> line.query,
      host |-> line.host,
      user_agent |-> line.user_agent,
      referrer |-> line.referrer,
      date |-> 0,
      extension |-> Join(LowerAll(AfterLast(line.path, "."))),
      is_download |-> FALSE,
      is_robot |-> FALSE,
      is_error |-> FALSE,
      is_redirect |-> FALSE,
      args |-> NoArgsOfHit ]

\* int(s) of a string given character by character: an optional sign and
\* decimal digits, a ValueError otherwise
DigitOf(ch) ==
    CASE ch = "0" -> 0 [] ch = "1" -> 1 [] ch = "2" -> 2 [] ch = "3" -> 3
      [] ch = "4" -> 4 [] ch = "5" -> 5 [] ch = "6" -> 6 [] ch = "7" -> 7
      [] ch = "8" -> 8 [] ch = "9" -> 9 [] OTHER -> -1

is_int(s) ==
    LET digits == IF s # <<>> /\ s[1] \in {"+", "-"} THEN Tail(s) ELSE s
    IN  /\ digits # <<>>
        /\ \A i \in 1 .. Len(digits) : DigitOf(digits[i]) >= 0

int(s) ==
    LET RECURSIVE int_of_digits(_)
        int_of_digits(digits) ==
            IF digits = <<>> THEN 0
            ELSE 10 * int_of_digits(SubSeq(digits, 1, Len(digits) - 1))
                 + DigitOf(digits[Len(digits)])
    IN
    IF s[1] = "-" THEN 0 - int_of_digits(Tail(s))
    ELSE IF s[1] = "+" THEN int_of_digits(Tail(s))
    ELSE int_of_digits(s)

\* the minutes do not carry the sign of the offset
timedelta_from_timezone_unsignedMinutes(timezone) ==
    LET tz == int(timezone)
        sign == IF tz >= 0 THEN 1 ELSE -1
        n == IF tz >= 0 THEN tz ELSE 0 - tz
        hours == (n \div 100) * sign
        minutes == n % 100
    IN  hours * 3600 + minutes * 60

\* TimeHelper.timedelta_from_timezone, in seconds; hours are
\* int(n / 100) * sign and minutes n % 100 * sign
timedelta_from_timezone(timezone) ==
    LET tz == int(timezone)
        sign == IF tz >= 0 THEN 1 ELSE -1
        n == IF tz >= 0 THEN tz ELSE 0 - tz
        hours == (n \div 100) * sign
        minutes == (n % 100) * sign
    IN  hours * 3600 + minutes * 60

Parsed(kind, h, counted) == [kind |-> kind, hit |-> h, counted |-> counted]

\* the date and the timezone are parsed before the filters are called
parse_line_dateFirst(opts, line) ==
    IF ~line.matches
    THEN Parsed("no_match", new_hit(line), {"count_lines_invalid"})
    ELSE IF ~line.date_ok
    THEN Parsed("invalid_date", new_hit(line), {"count_lines_invalid"})
    ELSE
    LET hd == [new_hit(line) EXCEPT !.date = line.date + opts.seconds_to_add_to_date]
        timezone == SelectSeq(line.timezone, LAMBDA ch : ch # ":")
    IN  IF timezone # <<>> /\ ~is_int(timezone)
        THEN Parsed("invalid_timezone", hd, {"count_lines_invalid"})
        ELSE
    LET hz == IF timezone # <<>>
              THEN [hd EXCEPT !.date = hd.date - timedelta_from_timezone(timezone)]
              ELSE hd
        c == all_checks(check_methods, opts, hz, {})
    IN  IF ~c.ok THEN Parsed("excluded", c.hit, c.counted)
        ELSE IF opts.replay_tracking
                /\ (c.hit.query = <<>> \/ ~is_hit_for_tracker(opts, c.hit))
        THEN Parsed("no_tracker_request", c.hit, c.counted \cup {"count_lines_invalid"})
        ELSE IF opts.replay_tracking /\ "idsite" \notin DOMAIN parse_qs(c.hit.query)
        THEN Parsed("missing_idsite", c.hit, c.counted \cup {"count_lines_invalid"})
        ELSE LET hr == IF opts.replay_tracking
                       THEN [c.hit EXCEPT !.args = Update(c.hit.args, parse_qs(c.hit.query))]
                       ELSE c.hit
             IN  IF is_filtered(opts, hr)
                 THEN Parsed("filtered", hr, c.counted \cup {"count_lines_filtered"})
                 ELSE Parsed("accepted", hr, c.counted)

\* one iteration of the readline loop on a line that is not skipped: what
\* becomes of the line (for a line counted as invalid, which invalid_line
\* call counted it), the hit, and the counters incremented
parse_line(opts, line) ==
    IF ~line.matches
    THEN Parsed("no_match", new_hit(line), {"count_lines_invalid"})
    ELSE
    LET c == all_checks(check_methods, opts, new_hit(line), {})
    IN  IF ~c.ok THEN Parsed("excluded", c.hit, c.counted)
        ELSE IF ~line.date_ok
        THEN Parsed("invalid_date", c.hit, c.counted \cup {"count_lines_invalid"})
        ELSE
    LET hd == [c.hit EXCEPT !.date = line.date + opts.seconds_to_add_to_date]
        timezone == SelectSeq(line.timezone, LAMBDA ch : ch # ":")
    IN  IF timezone # <<>> /\ ~is_int(timezone)
        THEN Parsed("invalid_timezone", hd, c.counted \cup {"count_lines_invalid"})
        ELSE
    LET h == IF timezone # <<>>
             THEN [hd EXCEPT !.date = hd.date - timedelta_from_timezone(timezone)]
             ELSE hd
    IN  IF opts.replay_tracking
                /\ (h.query = <<>> \/ ~is_hit_for_tracker(opts, h))
        THEN Parsed("no_tracker_request", h, c.counted \cup {"count_lines_invalid"})
        ELSE IF opts.replay_tracking /\ "idsite" \notin DOMAIN parse_qs(h.query)
        THEN Parsed("missing_idsite", h, c.counted \cup {"count_lines_invalid"})
        ELSE LET hr == IF opts.replay_tracking
                       THEN [h EXCEPT !.args = Update(h.args, parse_qs(h.query))]
                       ELSE h
             IN  IF is_filtered(opts, hr)
                 THEN Parsed("filtered", hr, c.counted \cup {"count_lines_filtered"})
                 ELSE Parsed("accepted", hr, c.counted)

\* ------------------------------------------------------------------------
\* Recorder._get_hit_args: HitArgsGenerator and its rules
\* ------------------------------------------------------------------------

\* the query string of a line, as it stands in the log
RECURSIVE query_string(_)
query_string(query) ==
    IF query = <<>> THEN <<>>
    ELSE <<Head(query).k, "=", Head(query).v>>
         \o (IF Len(query) > 1 THEN <<"&">> ELSE <<>>)
         \o query_string(Tail(query))

\* the characters of a URL given as one string
tokens_of(s) ==
    IF s = "http://a/b" THEN <<"http", ":", "/", "/", "a", "/", "b">>
    ELSE IF s = "http://ref/" THEN <<"http", ":", "/", "/", "ref", "/">>
    ELSE <<s>>

\* json.dumps of the custom variables of a hit
cvar_json(key, val) == "{\"1\": [\"" \o key \o "\", \"" \o val \o "\"]}"

Built(ok, args, url) == [ok |-> ok, args |-> args, url |-> url]

\* args["download"] = args["url"], a KeyError without a url
SetDownload(b) ==
    IF "url" \in DOMAIN b.args
    THEN Built(b.ok, Update(b.args, [k \in {"download"} |-> b.args["url"]]), b.url)
    ELSE Built(FALSE, b.args, b.url)

SetBots(opts, b) ==
    IF opts.enable_bots
    THEN Built(b.ok, Update(b.args, [k \in {"bots"} |-> "1"]), b.url)
    ELSE b

\* Recorder._get_hit_args for a hit with a site: the custom variables, the
\* base arguments and HitArgsGenerator.generate
\* _get_hit_args: hit.add_visit_custom_var("Bot" / "Not-Bot", ...) under
\* --enable-bots and hit.add_page_custom_var("HTTP-code", hit.status), which
\* write into hit.args; _add_custom_var leaves an argument that is a string
\* (a logged one) as it is
add_custom_vars(opts, hit0) ==
    LET bot == IF opts.enable_bots /\ "_cvar" \notin DOMAIN hit0.args
               THEN [k \in {"_cvar"} |->
                       cvar_json(IF hit0.is_robot THEN "Bot" ELSE "Not-Bot",
                                 Join(hit0.user_agent))]
               ELSE NoArgsOfHit
        code == IF "cvar" \notin DOMAIN hit0.args
                THEN [k \in {"cvar"} |-> cvar_json("HTTP-code", Join(hit0.status))]
                ELSE NoArgsOfHit
    IN  [hit0 EXCEPT !.args = Update(Update(hit0.args, bot), code)]

get_hit_args(opts, hit0, site_id) ==
    \* ReplayTrackingRule.execute; url carries the characters of args["url"]
    LET ReplayTrackingRule(cfg, item, at, b) ==
            IF cfg.replay_tracking
            THEN Built(TRUE, Update(b.args, [k \in {"rec"} |-> "0"]), b.url)
            ELSE LET url_prefix == <<"https", ":", "/", "/">> \o item.host
                     url == (IF at # <<>> /\ Head(at) = "/" THEN url_prefix ELSE <<>>)
                            \o at
                     withUrl == Update(b.args, [k \in {"url"} |-> Join(url)])
                 IN  Built(TRUE,
                           IF Len(item.referrer) > 0
                           THEN Update(withUrl, [k \in {"urlref"} |-> Join(item.referrer)])
                           ELSE withUrl,
                           url)
        \* HitArgsRule.execute
        HitArgsRule(cfg, item, b) ==
            LET hit_args == [k \in DOMAIN item.args \ {"idsite"} |-> item.args[k]]
                copied == Built(b.ok, Update(b.args, hit_args),
                                IF "url" \in DOMAIN hit_args
                                THEN tokens_of(hit_args["url"]) ELSE b.url)
            IN  SetBots(cfg, IF item.is_download THEN SetDownload(copied) ELSE copied)
        \* DownloadsRule.execute
        DownloadsRule(item, b) == IF item.is_download THEN SetDownload(b) ELSE b
        \* BotsRule.execute
        BotsRule(cfg, b) == SetBots(cfg, b)
        \* ErrorOrRedirectRule.execute: the condition is
        \* args_config.hit.is_error or args_config.hit.is_error
        ErrorOrRedirectRule(cfg, item, b) ==
            \* the text of action_name
            LET action_name_of(o, status, url, has_urlref, urlref) ==
                    Join(status) \o o.title_category_delimiter \o "URL = " \o quote(url)
                    \o (IF has_urlref
                        THEN o.title_category_delimiter \o "From = " \o quote(urlref)
                        ELSE "")
            IN
            IF item.is_error \/ item.is_error
            THEN IF "url" \in DOMAIN b.args
                 THEN Built(b.ok,
                            Update(b.args,
                                   [k \in {"action_name"} |->
                                      action_name_of(cfg, item.status, b.url,
                                                     "urlref" \in DOMAIN b.args,
                                                     IF "urlref" \in DOMAIN b.args
                                                     THEN tokens_of(b.args["urlref"])
                                                     ELSE <<>>)]),
                            b.url)
                 ELSE Built(FALSE, b.args, b.url)
            ELSE b
        \* MiscHitItemsRule.execute for a hit without generation time, event or
        \* length, and without --debug-tracker
        MiscHitItemsRule(cfg, b) ==
            LET TRACKING_CLIENT_VERSION == "4.1.0"
                TRACKING_CLIENT_NAME == "wla"
            IN
            IF ~cfg.replay_tracking
            THEN Built(b.ok,
                       Update(b.args, [k \in {"ts_n", "ts_v"} |->
                                         IF k = "ts_n" THEN TRACKING_CLIENT_NAME
                                         ELSE TRACKING_CLIENT_VERSION]),
                       b.url)
            ELSE b
        \* Recorder.date_to_piwik
        date_to_piwik(date) ==
            LET two(n) == IF n < 10 THEN "0" \o ToString(n) ELSE ToString(n)
                time == date % 86400
            IN  "2024-01-" \o two(date \div 86400 + 1) \o " " \o two(time \div 3600)
                \o ":" \o two((time % 3600) \div 60) \o ":" \o two(time % 60)
        ClientIp == "10.0.0.1"
        path == hit0.path \o (IF hit0.query # <<>>
                              THEN <<"?">> \o query_string(hit0.query)
                              ELSE <<>>)
        h == add_custom_vars(opts, hit0)
        base == [k \in {"rec", "apiv", "cip", "cdt", "idsite", "queuedtracking",
                        "dp", "ua"} |->
                   CASE k = "rec" -> "1"
                     [] k = "apiv" -> "1"
                     [] k = "cip" -> ClientIp
                     [] k = "cdt" -> date_to_piwik(h.date)
                     [] k = "idsite" -> site_id
                     [] k = "queuedtracking" -> "0"
                     [] k = "dp" -> "1"
                     [] k = "ua" -> Join(h.user_agent)]
        r1 == ReplayTrackingRule(opts, h, path, Built(TRUE, base, <<>>))
        r2 == HitArgsRule(opts, h, r1)
        r3 == DownloadsRule(h, r2)
        r4 == BotsRule(opts, r3)
        r5 == ErrorOrRedirectRule(opts, h, r4)
    IN  MiscHitItemsRule(opts, r5)

\* the state of a run before its first line
NoHit == new_hit(DefaultLine)

LineInit(opts) ==
    /\ line_options = opts
    /\ stats = [c \in CounterNames |-> 0]
    /\ lines_skipped = 0
    /\ lpc = "read"
    /\ last_line = DefaultLine
    /\ last_hit = NoHit
    /\ outcome = "none"
    /\ request = NoArgsOfHit
    /\ total_lines_ignored = -1

\* ------------------------------------------------------------------------
\* Initial state: the configuration is parsed, Recorder.launch has run
\* ------------------------------------------------------------------------

NoFail == [requests |-> <<>>, tracked |-> -1]

InitState(opts) ==
    LET NoFatal == [reason |-> None, filename |-> None, lineno |-> -1]
        \* hash() of the visitor ids in this process (PYTHONHASHSEED); with one
        \* recorder every hash gives shard 0, and one hash stands for all
        HashSeeds(o) ==
            LET HashValues == {-1, 2}
                VisitorIds == {"a", "b"}
            IN
            IF o.recorders = 1
            THEN {[v \in VisitorIds |-> -1]}
            ELSE [VisitorIds -> HashValues]
    IN
    /\ options = opts
    /\ hashseed \in HashSeeds(opts)
    /\ ppc = "parse"
    /\ lineno = -1
    /\ buf = <<>>
    /\ groups = [r \in 0 .. (opts.recorders - 1) |-> <<>>]
    /\ puti = 0
    /\ eof = FALSE
    /\ waiti = 0
    /\ joining = FALSE
    /\ interrupted = FALSE
    /\ queue = [r \in 0 .. (opts.recorders - 1) |-> <<>>]
    /\ unfinished = [r \in 0 .. (opts.recorders - 1) |-> 0]
    /\ wpc = [r \in 0 .. (opts.recorders - 1) |-> "get"]
    /\ batch = [r \in 0 .. (opts.recorders - 1) |-> <<>>]
    /\ rest = [r \in 0 .. (opts.recorders - 1) |-> <<>>]
    /\ payload = [r \in 0 .. (opts.recorders - 1) |-> <<>>]
    /\ errors = [r \in 0 .. (opts.recorders - 1) |-> 0]
    /\ posts = [r \in 0 .. (opts.recorders - 1) |-> 0]
    /\ sleeps = [r \in 0 .. (opts.recorders - 1) |-> 0]
    /\ refreshes = [r \in 0 .. (opts.recorders - 1) |-> 0]
    /\ lastCode = [r \in 0 .. (opts.recorders - 1) |-> 0]
    /\ lastFail = [r \in 0 .. (opts.recorders - 1) |-> NoFail]
    /\ lastPost = [r \in 0 .. (opts.recorders - 1) |-> <<>>]
    /\ exitCode = -1
    /\ fatal = NoFatal
    /\ recorded = {}
    /\ flushed = <<>>
    /\ sent = [r \in 0 .. (opts.recorders - 1) |-> <<>>]
    /\ since_sleep = [r \in 0 .. (opts.recorders - 1) |-> 0]
    /\ accepted = <<>>
    /\ no_site = 0
    /\ sites_ignored = {}

\* Statistics.Counter.__init__
CounterThreads == 1 .. MaxThreads

\* ------------------------------------------------------------------------
\* Format detection: FORMATS, the W3C family and Parser.check_format
\* ------------------------------------------------------------------------
\* the names of FORMATS, in the order of the dictionary
FORMATS ==
    << "common", "common_vhost", "ncsa_extended", "common_complete",
       "w3c_extended", "amazon_cloudfront", "incapsula_w3c", "iis",
       "shoutcast", "s3", "icecast2", "elb", "nginx_json", "ovh", "haproxy",
       "gandi" >>

FormatNames == {FORMATS[i] : i \in 1 .. Len(FORMATS)}

\* the instances of W3cExtendedFormat and of its subclasses
W3cFamily ==
    {"w3c_extended", "amazon_cloudfront", "incapsula_w3c", "iis", "shoutcast"}

\* W3cExtendedFormat.fields
W3cFields ==
    { "date", "time", "cs-uri-stem", "cs-uri-query", "c-ip", "cs(User-Agent)",
      "cs(Referer)", "sc-status", "sc-bytes", "cs-host", "cs-method",
      "cs-username", "time-taken" }

\* the files explored, by what check_format sees of them:
\*   fields_from: "header" (a #Fields: line in the file), "option"
\*                (--w3c-fields) or "none";
\*   header, fields: the header line in front of the Fields line, and the
\*                fields; the lines under them are written without quotes;
\*   others:      the fixed formats whose regular expression matches the
\*                first line of the file;
\*   is_json:     json.loads accepts the first line of the file.
\* The first line of a file with a #Fields: line is a header line, which
\* no fixed format and no JSON parser accepts. A line that is JSON can
\* match the haproxy expression, inside a string, and a W3C expression
\* made of one numeric field; the other expressions want an unescaped
\* quote after a blank, or a first character that JSON does not begin with.
FileChoices ==
    \* the Fields lines explored, as the list of their field names
    LET FieldsChoices ==
            { <<"date", "time", "c-ip", "cs-method", "cs-uri-stem", "time-taken",
                "sc-status">>,
              <<"date", "time", "c-ip", "cs-method", "cs-uri-stem", "time-taken",
                "sc-status", "sc-win32-status">>,
              <<"sc-status">>,
              <<"x-a", "x-b">>,
              <<"date", "time", "cs-uri-stem", "x-edge-location">>,
              <<"date", "time", "cs-uri-stem">>,
              <<"c-status", "x-duration", "date">> }
        \* the header lines in front of the Fields line
        HeaderChoices ==
            { "", "#Software: Microsoft IIS 7.5",
              "#Software: Microsoft Internet Information Services 7.5",
              "#Software: SHOUTcast" }
        \* the formats made of one fixed regular expression
        FixedRegexFormats == FormatNames \ (W3cFamily \cup {"nginx_json"})
    IN
    { [fields_from |-> "header", header |-> hd, fields |-> fl,
       others |-> {}, is_json |-> FALSE, w3c_time_taken_in_millisecs |-> ms] :
        hd \in HeaderChoices, fl \in FieldsChoices, ms \in BOOLEAN }
    \cup
    { file \in
        { [fields_from |-> "option", header |-> "", fields |-> fl,
           others |-> {}, is_json |-> js, w3c_time_taken_in_millisecs |-> ms] :
            fl \in FieldsChoices, ms \in BOOLEAN, js \in BOOLEAN } :
        file.is_json => file.fields = <<"sc-status">> }
    \cup
    { file \in
        { [fields_from |-> "none", header |-> "", fields |-> <<>>,
           others |-> ot, is_json |-> js,
           w3c_time_taken_in_millisecs |-> FALSE] :
            ot \in SUBSET FixedRegexFormats, js \in BOOLEAN } :
        /\ Cardinality(file.others) <= MaxMatching
        /\ file.is_json => file.others \subseteq {"haproxy"} }

\* len(match.groups()) for a W3C class: the groups of the expression that
\* create_regex builds from the fields
RECURSIVE w3c_groups(_, _)
w3c_groups(name, fields) ==
    \* the fields of each class of the family, after fields.update
    LET fields_of(cls) ==
            CASE cls = "w3c_extended" -> W3cFields
              [] cls = "iis" -> W3cFields \cup {"sc-win32-status"}
              [] cls = "shoutcast" -> W3cFields \cup {"c-status", "x-duration"}
              [] cls = "incapsula_w3c" -> W3cFields \cup {"cs-uri", "cs-bytes"}
              [] cls = "amazon_cloudfront" ->
                    W3cFields \cup { "x-event", "x-sname", "c-user-agent",
                                     "x-edge-location", "x-edge-result-type",
                                     "x-edge-request-id", "x-host-header" }
        \* the capturing groups the regular expression of a field adds; a field
        \* the class does not know gets REGEX_UNKNOWN_FIELD, which captures nothing
        groups_of_field(cls, field) ==
            IF field \notin fields_of(cls) THEN 0
            ELSE IF cls = "incapsula_w3c" /\ field = "cs-uri" THEN 2
            ELSE 1
    IN
    IF fields = <<>> THEN 0
    ELSE groups_of_field(name, Head(fields)) + w3c_groups(name, Tail(fields))

\* the result of _try_match for a format: whether it matches and
\* len(match.groups()); JsonFormat.check_format_line returns True, which
\* has no groups(): groups is -1 then
NoMatch == [matched |-> FALSE, groups |-> 0]

try_match(name, file) ==
    \* the number of groups of the regular expression of a fixed format
    LET regex_groups(fmt) ==
            CASE fmt = "common" -> 8
              [] fmt = "common_vhost" -> 9
              [] fmt = "ncsa_extended" -> 10
              [] fmt = "common_complete" -> 11
              [] fmt = "s3" -> 11
              [] fmt = "icecast2" -> 11
              [] fmt = "elb" -> 8
              [] fmt = "ovh" -> 10
              [] fmt = "haproxy" -> 6
              [] fmt = "gandi" -> 13
        \* whether the regular expression of a field matches a value written
        \* without quotes: the Incapsula class wants quotes around the fields it
        \* redefines and around the fields it does not know
        matches_plain(cls, field) ==
            \/ cls # "incapsula_w3c"
            \/ field \in { "date", "time", "cs-uri-stem", "sc-bytes", "cs-host",
                           "cs-method", "cs-username", "time-taken" }
    IN
    IF name \in W3cFamily
    THEN IF file.fields # <<>>
            /\ \A i \in 1 .. Len(file.fields) : matches_plain(name, file.fields[i])
         THEN [matched |-> TRUE, groups |-> w3c_groups(name, file.fields)]
         ELSE NoMatch
    ELSE IF name = "nginx_json"
    THEN IF file.is_json THEN [matched |-> TRUE, groups |-> -1] ELSE NoMatch
    ELSE IF name \in file.others
    THEN [matched |-> TRUE, groups |-> regex_groups(name)]
    ELSE NoMatch

NoFormat == "none"

\* a JSON match replaces no format selected before it
check_candidate_jsonCompared(sel, name, match) ==
    IF name = "ovh" \/ ~match.matched THEN sel
    ELSE IF match.groups = -1
    THEN IF sel.format = NoFormat
         THEN [format |-> name, format_groups |-> sel.format_groups]
         ELSE sel
    ELSE IF sel.format_groups < match.groups
    THEN [format |-> name, format_groups |-> match.groups]
    ELSE sel

\* one iteration of the loop of Parser.check_format
check_candidate(sel, name, match) ==
    IF name = "ovh" \/ ~match.matched THEN sel
    ELSE IF match.groups = -1
    THEN [format |-> name, format_groups |-> sel.format_groups]
    ELSE IF sel.format_groups < match.groups
    THEN [format |-> name, format_groups |-> match.groups]
    ELSE sel

\* only the long name of the server is looked for
is_iis_longNameOnly(file) ==
    /\ file.fields_from = "header"
    /\ file.header = "#Software: Microsoft Internet Information Services 7.5"

\* W3cExtendedFormat._is_iis: a header line has "internet information
\* services" or "iis" in it, in any case
is_iis(file) ==
    /\ file.fields_from = "header"
    /\ file.header \in { "#Software: Microsoft IIS 7.5",
                        "#Software: Microsoft Internet Information Services 7.5" }

\* Parser.check_format
check_format(file) ==
    \* W3cExtendedFormat.check_for_iis_option: whether the warning is logged
    LET check_for_iis_option(fmt, seen) ==
            \* W3cExtendedFormat._is_time_taken_milli: "generation_time_milli" is not
            \* in the expression; it is there for a time-taken field of the IIS class
            \* or under --w3c-time-taken-millisecs
            LET is_time_taken_milli(cls, f) ==
                    ~ (/\ \E i \in 1 .. Len(f.fields) : f.fields[i] = "time-taken"
                       /\ (cls = "iis" \/ f.w3c_time_taken_in_millisecs))
            IN
            /\ ~seen.w3c_time_taken_in_millisecs
            /\ is_time_taken_milli(fmt, seen)
            /\ is_iis(seen)
        \* the loop of Parser.check_format over the first n formats
        RECURSIVE check_formats(_, _)
        check_formats(n, f) ==
            IF n = 0 THEN [format |-> NoFormat, format_groups |-> 0]
            ELSE check_candidate(check_formats(n - 1, f), FORMATS[n],
                                 try_match(FORMATS[n], f))
        format == check_formats(Len(FORMATS), file).format
    IN  [format |-> format,
         warned |-> format \in W3cFamily /\ check_for_iis_option(format, file)]

\* before any file is looked at
FormatInit ==
    /\ file_seen = [fields_from |-> "none", header |-> "", fields |-> <<>>,
                    others |-> {}, is_json |-> FALSE,
                    w3c_time_taken_in_millisecs |-> FALSE]
    /\ format_found = NoFormat
    /\ iis_warned = FALSE
    /\ fpc = "detect"

\* ------------------------------------------------------------------------
\* UrlHelper.convert_array_args
\* ------------------------------------------------------------------------
\* the values of a nested structure: a string, a dict of values by key, a
\* list of values
Str(s) == [t |-> "str", s |-> s, d |-> <<>>, l |-> <<>>]
Dict(d) == [t |-> "dict", s |-> "", d |-> d, l |-> <<>>]
List(l) == [t |-> "list", s |-> "", d |-> <<>>, l |-> l]

\* an exception raised while the arguments are converted
TypeError ==
    [t |-> "TypeError", s |-> "list indices must be integers or slices, not str",
     d |-> <<>>, l |-> <<>>]

ParamName == "a"
KeyOrder == <<"0", "b">>

\* the structure behind the parameters of a request: one named parameter
StructureChoices ==
    \* the structures of a given depth: strings, and dicts and lists of
    \* structures of a smaller depth
    LET RECURSIVE StructuresOfDepth(_)
        StructuresOfDepth(d) ==
            LET LeafChoices == {"x", "y"}
            IN
            IF d = 0 THEN {Str(s) : s \in LeafChoices}
            ELSE LET sub == StructuresOfDepth(d - 1)
                 IN  sub
                     \cup {Dict(f) : f \in UNION {[K -> sub] : K \in SUBSET Range(KeyOrder) \ {{}}}}
                     \cup {List(l) : l \in UNION {[1 .. n -> sub] : n \in 1 .. MaxListLen}}
    IN
                    {Dict([n \in {ParamName} |-> node]) : node \in StructuresOfDepth(MaxDepth)}

\* the serialization of a structure to bracketed names, name[key] for the
\* entry of a dict and name[] for each element of a list, in order; a
\* name is given character group by character group
RECURSIVE serialize(_, _)
RECURSIVE serialize_entries(_, _, _)
RECURSIVE serialize_elements(_, _, _)
serialize_entries(name, d, i) ==
    IF i > Len(KeyOrder) THEN <<>>
    ELSE (IF KeyOrder[i] \in DOMAIN d
          THEN serialize(name \o <<"[", KeyOrder[i], "]">>, d[KeyOrder[i]])
          ELSE <<>>)
         \o serialize_entries(name, d, i + 1)

serialize_elements(name, l, i) ==
    IF i > Len(l) THEN <<>>
    ELSE serialize(name \o <<"[", "]">>, l[i]) \o serialize_elements(name, l, i + 1)

serialize(name, node) ==
    CASE node.t = "str" -> << [k |-> name, v |-> node.s] >>
      [] node.t = "dict" -> serialize_entries(name, node.d, 1)
      [] node.t = "list" -> serialize_elements(name, node.l, 1)

\* _convert_dicts_to_arrays
RECURSIVE convert_dicts_to_arrays(_)
convert_dicts_to_arrays(d) ==
    \* _has_contiguous_int_keys
    LET has_contiguous_int_keys(m) ==
            \A i \in 0 .. Cardinality(DOMAIN m) - 1 : ToString(i) \in DOMAIN m
        \* _convert_dict_to_array
        convert_dict_to_array(m) ==
            List([i \in 1 .. Cardinality(DOMAIN m) |-> m[ToString(i - 1)]])
    IN
    [key \in DOMAIN d |->
        IF d[key].t # "dict" THEN d[key]
        ELSE IF has_contiguous_int_keys(d[key].d)
        THEN convert_dict_to_array(d[key].d)
        ELSE Dict(convert_dicts_to_arrays(d[key].d))]

convert_array_args(args) ==
    \* convert_array_args: the navigation from indices[i] on, in the container
    \* element, and the assignment at the end; gives the container afterwards
    LET RECURSIVE set_at(_, _, _, _)
        set_at(element, indices, i, val) ==
            \* the empty container of a type
            LET empty_of(element_type) == IF element_type = "list" THEN List(<<>>) ELSE Dict(<<>>)
            IN
            IF i = Len(indices)
            THEN IF indices[i] = ""
                 THEN IF element.t = "list" THEN List(Append(element.l, Str(val)))
                      ELSE TypeError
                 ELSE IF element.t = "dict"
                      THEN Dict(Update(element.d, [k \in {indices[i]} |-> Str(val)]))
                      ELSE TypeError
            ELSE IF element.t # "dict" THEN TypeError
            ELSE LET idx == indices[i]
                     element_type == IF indices[i + 1] = "" THEN "list" ELSE "dict"
                     child == IF idx \in DOMAIN element.d /\ element.d[idx].t = element_type
                              THEN element.d[idx]
                              ELSE empty_of(element_type)
                     after == set_at(child, indices, i + 1, val)
                 IN  IF after = TypeError THEN TypeError
                     ELSE Dict(Update(element.d, [k \in {idx} |-> after]))
        \* the indices of a name with a "["
        indices_of(name) ==
            \* i.rstrip("]")
            LET RECURSIVE rstrip_bracket(_)
                rstrip_bracket(part) ==
                    IF part # <<>> /\ part[Len(part)] = "]"
                    THEN rstrip_bracket(SubSeq(part, 1, Len(part) - 1))
                    ELSE part
                \* key.split("["): the character groups between the "[" of a name
                RECURSIVE split_bracket(_, _, _)
                split_bracket(key, i, current) ==
                    IF i > Len(key) THEN <<current>>
                    ELSE IF key[i] = "["
                    THEN <<current>> \o split_bracket(key, i + 1, <<>>)
                    ELSE split_bracket(key, i + 1, Append(current, key[i]))
                parts == split_bracket(name, 1, <<>>)
            IN  [i \in 1 .. Len(parts) |-> Join(rstrip_bracket(parts[i]))]
        \* convert_array_args: the loop over args.items() from item i on
        RECURSIVE convert_items(_, _, _)
        convert_items(items, i, final_args) ==
            IF i > Len(items) THEN final_args
            ELSE LET key == items[i].k
                     after == IF "[" \in Range(key)
                              THEN set_at(final_args, indices_of(key), 1, items[i].v)
                              ELSE Dict(Update(final_args.d,
                                               [k \in {Join(key)} |-> Str(items[i].v)]))
                 IN  IF after = TypeError THEN TypeError
                     ELSE convert_items(items, i + 1, after)
        final_args == convert_items(args, 1, Dict(<<>>))
    IN  IF final_args = TypeError THEN TypeError
        ELSE Dict(convert_dicts_to_arrays(final_args.d))

\* before the parameters of a request are looked at
ArgsInit ==
    /\ structure = Dict(<<>>)
    /\ serialized = <<>>
    /\ converted = Dict(<<>>)
    /\ apc = "request"

\* the Authorization header of a request: none, the one _call_api builds
\* from config.piwik_token (token_type and access_token name the token each
\* was read from), or the one _handle_basic_auth builds
NoAuthorization == [scheme |-> "none", token_type |-> 0, access_token |-> 0]

\* no thread is making an API call
ApiIdle ==
    /\ api_options = [auth_user |-> FALSE, max_attempts |-> 1]
    /\ piwik_token = 0
    /\ tokens_issued = 0
    /\ api_fatal = FALSE
    /\ api_pc = [t \in 0 .. (MaxThreads - 1) |-> "idle"]
    /\ api_entry = [t \in 0 .. (MaxThreads - 1) |-> "auth_call_api"]
    /\ api_headers = [t \in 0 .. (MaxThreads - 1) |-> NoAuthorization]
    /\ api_second = [t \in 0 .. (MaxThreads - 1) |-> FALSE]
    /\ api_errors = [t \in 0 .. (MaxThreads - 1) |-> 0]
    /\ api_exc = [t \in 0 .. (MaxThreads - 1) |-> "none"]
    /\ api_invalid = [t \in 0 .. (MaxThreads - 1) |-> FALSE]
    /\ api_result = [t \in 0 .. (MaxThreads - 1) |-> "none"]
    /\ api_done = [t \in 0 .. (MaxThreads - 1) |-> 0]
    /\ api_sent = {}

\* main before its loop over config.filenames
FilesInit(limit, n) ==
    /\ debug_request_limit = limit
    /\ filenames = n
    /\ fileno = 0
    /\ mpc = "main"
    /\ file_lineno = -1
    /\ valid_lines_count = 0
    /\ file_hits = <<>>
    /\ created_hits = <<>>
    /\ added_hits = <<>>
    /\ limit_exits = 0

\* one file, no --debug-request-limit
FilesIdle == FilesInit(0, 1)

CounterInit ==
    /\ counter = 1
    /\ value = 0
    /\ tpc = [t \in CounterThreads |-> "idle"]
    /\ tn = [t \in CounterThreads |-> 0]
    /\ todo = [t \in CounterThreads |-> 0]

\* DynamicResolver.__init__
ResolverThreads == 1 .. MaxThreads
ResolverHosts == {KnownHost, UnknownHost}

ResolverInit ==
    /\ cache = [h \in {} |-> None]
    /\ api_calls = [h \in ResolverHosts |-> 0]
    /\ rpc = [t \in ResolverThreads |-> "idle"]
    /\ rhost = [t \in ResolverThreads |-> None]
    /\ rdone = [t \in ResolverThreads |-> 0]

Init ==
    \* the configurations explored: every recorder count and payload size with
    \* one attempt per call, and every max_attempts with one recorder
    LET OptionsChoices ==
            [ recorders : 1 .. MaxRecorders,
              recorder_max_payload_size : 1 .. MaxPayloadSize,
              disable_bulk_tracking : BOOLEAN,
              max_attempts : {1},
              replay_tracking : BOOLEAN,
              dry_run : {FALSE},
              sleep_between_requests_ms : {NotGiven} ]
            \cup
            [ recorders : {1},
              recorder_max_payload_size : {MaxPayloadSize},
              disable_bulk_tracking : BOOLEAN,
              max_attempts : 0 .. MaxRetryBound,
              replay_tracking : BOOLEAN,
              dry_run : {FALSE},
              sleep_between_requests_ms : {NotGiven} ]
    IN
    /\ \E opts \in OptionsChoices : InitState(opts)
    /\ CounterInit
    /\ ResolverInit
    /\ LineInit(DefaultLineOptions) /\ FormatInit /\ FilesIdle /\ ArgsInit /\ ApiIdle

\* os._exit and the end of main have not happened yet
Running == exitCode < 0

\* ------------------------------------------------------------------------
\* Parser.parse (the main thread)
\* ------------------------------------------------------------------------
HitInputs == IF options.replay_tracking THEN ReplayInputs ELSE LogInputs

FlushThreshold == options.recorder_max_payload_size * options.recorders

\* Recorder.add_hits up to its first queue.put
StartAddHits(all_hits, last) ==
    /\ groups' = hits_by_client(all_hits, EmptyGroups)
    /\ flushed' = flushed \o all_hits
    /\ puti' = 0
    /\ eof' = last
    /\ ppc' = "put"

\* one iteration of the readline loop on a line that yields no hit
\* (skipped, invalid or filtered)
ParseRejectedLine ==
    /\ Running /\ ppc = "parse"
    /\ lineno + 1 < MaxLines
    /\ lineno' = lineno + 1
    /\ UNCHANGED <<options, hashseed, since_sleep, auxVars, accepted, statsVars, ppc, buf, groups, puti, eof, waiti, joining,
                   interrupted, flushed, queue, unfinished, workerVars,
                   callVars, exitCode, fatal, recorded>>

\* one iteration of the readline loop on a line that yields a hit
ParseHit ==
    /\ Running /\ ppc = "parse"
    /\ lineno + 1 < MaxLines
    /\ \E inp \in HitInputs :
         LET hit == [filename |-> Filename, lineno |-> lineno + 1,
                     ip |-> inp.ip, host |-> inp.host, args |-> inp.args]
             hits == Append(buf, hit)
         IN  /\ lineno' = lineno + 1
             /\ buf' = hits
             /\ accepted' = Append(accepted, hit)
             /\ IF Len(hits) >= FlushThreshold
                THEN StartAddHits(hits, FALSE)
                ELSE UNCHANGED <<groups, flushed, puti, eof, ppc>>
    /\ UNCHANGED <<options, hashseed, since_sleep, auxVars, statsVars, waiti, joining, interrupted, queue,
                   unfinished, workerVars, callVars, exitCode, fatal, recorded>>

\* the last chunk of hits is not added at the end of the file
EndOfFile_dropsLast ==
    /\ Running /\ ppc = "parse"
    /\ lineno' = -1
    /\ ppc' = "wait"
    /\ waiti' = 0
    /\ buf' = <<>>
    /\ UNCHANGED <<groups, flushed, puti, eof>>
    /\ UNCHANGED <<options, hashseed, since_sleep, auxVars, accepted, statsVars, joining,
                   interrupted, queue, unfinished, workerVars, callVars,
                   exitCode, fatal, recorded>>

\* readline returns no line: add the last chunk of hits, then main calls
\* Recorder.wait_empty
EndOfFile ==
    /\ Running /\ ppc = "parse"
    /\ lineno' = -1
    /\ IF Len(buf) > 0
       THEN StartAddHits(buf, TRUE) /\ UNCHANGED waiti
       ELSE /\ ppc' = "wait"
            /\ waiti' = 0
            /\ UNCHANGED <<groups, flushed, puti, eof>>
    /\ UNCHANGED <<options, hashseed, since_sleep, auxVars, accepted, statsVars, buf, joining, interrupted, queue,
                   unfinished, workerVars, callVars, exitCode, fatal, recorded>>

\* the put never blocks: the queue has no maximum size
QueuePut_unbounded ==
    /\ Running /\ ppc = "put"
    /\ queue' = [queue EXCEPT ![puti] = Append(@, groups[puti])]
    /\ unfinished' = [unfinished EXCEPT ![puti] = @ + 1]
    /\ IF puti + 1 < options.recorders
       THEN /\ puti' = puti + 1
            /\ UNCHANGED <<ppc, buf, groups, waiti, eof>>
       ELSE /\ puti' = 0
            /\ buf' = <<>>
            /\ groups' = EmptyGroups
            /\ ppc' = IF eof THEN "wait" ELSE "parse"
            /\ waiti' = 0
            /\ eof' = FALSE
    /\ UNCHANGED <<options, hashseed, since_sleep, auxVars, accepted, statsVars, lineno, joining, interrupted,
                   flushed, workerVars, callVars, exitCode, fatal, recorded>>

\* Recorder.add_hits: recorder.queue.put(hits_by_client[i]), blocking while
\* the queue is full
QueuePut ==
    /\ Running /\ ppc = "put"
    /\ Len(queue[puti]) < QueueMaxSize
    /\ queue' = [queue EXCEPT ![puti] = Append(@, groups[puti])]
    /\ unfinished' = [unfinished EXCEPT ![puti] = @ + 1]
    /\ IF puti + 1 < options.recorders
       THEN /\ puti' = puti + 1
            /\ UNCHANGED <<ppc, buf, groups, waiti, eof>>
       ELSE /\ puti' = 0
            /\ buf' = <<>>
            /\ groups' = EmptyGroups
            /\ ppc' = IF eof THEN "wait" ELSE "parse"
            /\ waiti' = 0
            /\ eof' = FALSE
    /\ UNCHANGED <<options, hashseed, since_sleep, auxVars, accepted, statsVars, lineno, joining, interrupted,
                   flushed, workerVars, callVars, exitCode, fatal, recorded>>

\* ------------------------------------------------------------------------
\* Recorder.wait_empty / Recorder._wait_empty
\* ------------------------------------------------------------------------
\* while True: if self.queue.empty(): ... else time.sleep(1)
WaitEmptyCheck ==
    /\ Running /\ ppc = "wait" /\ ~joining
    /\ queue[waiti] = <<>>
    /\ joining' = TRUE
    /\ UNCHANGED <<options, hashseed, since_sleep, auxVars, accepted, statsVars, ppc, lineno, buf, groups, puti, eof,
                   waiti, interrupted, flushed, queue, unfinished, workerVars,
                   callVars, exitCode, fatal, recorded>>

\* return as soon as the queue is empty, without queue.join()
WaitEmptyJoin_nojoin ==
    /\ Running /\ ppc = "wait" /\ joining
    /\ joining' = FALSE
    /\ IF waiti + 1 < options.recorders
       THEN waiti' = waiti + 1 /\ UNCHANGED ppc
       ELSE waiti' = 0 /\ ppc' = "stop"
    /\ UNCHANGED <<options, hashseed, since_sleep, auxVars, accepted, statsVars, lineno, buf, groups, puti, eof,
                   interrupted, flushed, queue, unfinished, workerVars,
                   callVars, exitCode, fatal, recorded>>

\* self.queue.join(); return
WaitEmptyJoin ==
    /\ Running /\ ppc = "wait" /\ joining
    /\ unfinished[waiti] = 0
    /\ joining' = FALSE
    /\ IF waiti + 1 < options.recorders
       THEN waiti' = waiti + 1 /\ UNCHANGED ppc
       ELSE waiti' = 0 /\ ppc' = "stop"
    /\ UNCHANGED <<options, hashseed, since_sleep, auxVars, accepted, statsVars, lineno, buf, groups, puti, eof,
                   interrupted, flushed, queue, unfinished, workerVars,
                   callVars, exitCode, fatal, recorded>>

\* ------------------------------------------------------------------------
\* main
\* ------------------------------------------------------------------------
\* the interrupt ends the parsing and main goes on with Recorder.wait_empty
KeyboardInterrupt_wait ==
    /\ Running /\ ppc \in {"parse", "put"}
    /\ interrupted' = TRUE
    /\ ppc' = "wait"
    /\ lineno' = -1
    /\ buf' = <<>>
    /\ groups' = EmptyGroups
    /\ puti' = 0
    /\ eof' = FALSE
    /\ waiti' = 0
    /\ joining' = FALSE
    /\ accepted' = flushed
    /\ UNCHANGED <<options, hashseed, since_sleep, auxVars, statsVars, flushed, queue, unfinished,
                   workerVars,
                   callVars, exitCode, fatal, recorded>>

\* KeyboardInterrupt raised in parser.parse or Recorder.wait_empty unwinds
\* their frames; except KeyboardInterrupt: pass. The hits still in parse's
\* list go with its frame.
KeyboardInterrupt ==
    /\ Running /\ ppc \in {"parse", "put", "wait"}
    /\ interrupted' = TRUE
    /\ ppc' = "stop"
    /\ lineno' = -1
    /\ buf' = <<>>
    /\ groups' = EmptyGroups
    /\ puti' = 0
    /\ eof' = FALSE
    /\ waiti' = 0
    /\ joining' = FALSE
    /\ accepted' = flushed
    /\ UNCHANGED <<options, hashseed, since_sleep, auxVars, statsVars, flushed, queue, unfinished,
                   workerVars,
                   callVars, exitCode, fatal, recorded>>

\* stats.set_time_stop(); stats.stop_monitor(); stats.print_summary(); the
\* main thread ends and the daemon recorder threads end with it
PrintSummary ==
    /\ Running /\ ppc = "stop"
    /\ ppc' = "done"
    /\ exitCode' = 0
    /\ UNCHANGED <<options, hashseed, since_sleep, auxVars, accepted, statsVars, lineno, buf, groups, puti, eof, waiti,
                   joining, interrupted, flushed, queue, unfinished,
                   workerVars, callVars, fatal, recorded>>

\* ------------------------------------------------------------------------
\* Recorder._run_bulk / Recorder._run_single
\* ------------------------------------------------------------------------
Bulk == ~options.disable_bulk_tracking

\* self.queue.task_done()
TaskDone(w) == unfinished' = [unfinished EXCEPT ![w] = @ - 1]

\* self._throttle() and hits = self.queue.get(), up to the first call of
\* _record_hits
QueueGet(w) ==
    /\ Running /\ wpc[w] = "get"
    /\ queue[w] # <<>>
    /\ since_sleep' = [since_sleep EXCEPT ![w] = 0]
    /\ LET hits == Head(queue[w])
       IN  /\ queue' = [queue EXCEPT ![w] = Tail(@)]
           /\ IF Len(hits) = 0
              THEN /\ TaskDone(w)
                   /\ UNCHANGED <<wpc, batch, rest>>
              ELSE /\ wpc' = [wpc EXCEPT ![w] = "record"]
                   /\ batch' = [batch EXCEPT
                                  ![w] = IF Bulk THEN hits ELSE <<Head(hits)>>]
                   /\ rest' = [rest EXCEPT
                                 ![w] = IF Bulk THEN <<>> ELSE Tail(hits)]
                   /\ UNCHANGED unfinished
    /\ UNCHANGED <<options, hashseed, auxVars, statsVars, parserVars, payload, sent, callVars,
                   exitCode, fatal, recorded>>

\* _record_hits returned to _run_bulk / _run_single: task_done, or the next
\* hit of unrecorded_hits
AfterRecord(w) ==
    IF rest[w] = <<>>
    THEN /\ TaskDone(w)
         /\ wpc' = [wpc EXCEPT ![w] = "get"]
         /\ batch' = [batch EXCEPT ![w] = <<>>]
         /\ UNCHANGED rest
    ELSE /\ wpc' = [wpc EXCEPT ![w] = "record"]
         /\ batch' = [batch EXCEPT ![w] = <<Head(rest[w])>>]
         /\ rest' = [rest EXCEPT ![w] = Tail(@)]
         /\ UNCHANGED unfinished

\* the hits of a list at the positions of a set, in the list's order
RECURSIVE SelectAt(_, _, _)
SelectAt(hits, keep, i) ==
    IF i > Len(hits) THEN <<>>
    ELSE (IF i \in keep THEN <<hits[i]>> ELSE <<>>) \o SelectAt(hits, keep, i + 1)

\* resolver.resolve(hit) returns a site id: in replay mode the hit's idsite,
\* otherwise the site the API knows for the hit's host, if any
resolve(hit) == options.replay_tracking \/ hit.host # UnknownHost

\* Recorder._get_hit_args of the hits without a site: the host goes to
\* stats.piwik_sites_ignored
ignored_hosts(hits) == { hits[i].host : i \in {k \in 1 .. Len(hits) : ~resolve(hits[k])} }

\* the requests are built although --dry-run is set
builds_requests_inDryRun == TRUE

\* _record_hits: "if not config.options.dry_run:" around _get_hit_args and
\* piwik.call; with --dry-run hit_count stays 0
builds_requests == ~options.dry_run

\* the no-site counter is advanced once for a batch with hits without a site
RecordHits_oncePerBatch(w) ==
    /\ Running /\ wpc[w] = "record"
    /\ LET resolved == {i \in 1 .. Len(batch[w]) : resolve(batch[w][i])}
           requests == SelectAt(batch[w], resolved, 1)
           hit_count == Len(requests)
       IN  /\ no_site' = no_site + (IF hit_count < Len(batch[w]) THEN 1 ELSE 0)
           /\ sites_ignored' = sites_ignored \cup ignored_hosts(batch[w])
           /\ IF hit_count > 0
              THEN /\ payload' = [payload EXCEPT ![w] = requests]
                   /\ sent' = [sent EXCEPT ![w] = @ \o requests]
                   /\ wpc' = [wpc EXCEPT ![w] = "call"]
                   /\ errors' = [errors EXCEPT ![w] = 0]
                   /\ UNCHANGED <<posts, sleeps, refreshes, lastCode, lastFail,
                                  lastPost>>
                   /\ UNCHANGED <<batch, rest, unfinished>>
              ELSE /\ AfterRecord(w)
                   /\ UNCHANGED <<payload, sent, callVars>>
    /\ UNCHANGED <<options, hashseed, since_sleep, auxVars, parserVars, queue, exitCode, fatal,
                   recorded>>

\* piwik.call is made whatever hit_count is
RecordHits_alwaysCalls(w) ==
    /\ Running /\ wpc[w] = "record"
    /\ LET hits == IF builds_requests THEN batch[w] ELSE <<>>
           resolved == {i \in 1 .. Len(hits) : resolve(hits[i])}
           requests == SelectAt(hits, resolved, 1)
           hit_count == Len(requests)
       IN  /\ no_site' = no_site + (Len(hits) - hit_count)
           /\ sites_ignored' = sites_ignored \cup ignored_hosts(hits)
           /\ payload' = [payload EXCEPT ![w] = requests]
           /\ sent' = [sent EXCEPT ![w] = @ \o requests]
           /\ wpc' = [wpc EXCEPT ![w] = "call"]
           /\ errors' = [errors EXCEPT ![w] = 0]
           /\ UNCHANGED <<posts, sleeps, refreshes, lastCode, lastFail,
                          lastPost>>
           /\ UNCHANGED <<batch, rest, unfinished>>
    /\ UNCHANGED <<options, hashseed, since_sleep, auxVars, parserVars, queue, exitCode, fatal,
                   recorded>>

\* _record_hits up to piwik.call: _get_hit_args of every hit (a hit whose
\* site_id is None is counted by stats.count_lines_no_site, adds its host to
\* stats.piwik_sites_ignored, gives {} and no request), hit_count
RecordHits(w) ==
    /\ Running /\ wpc[w] = "record"
    /\ LET hits == IF builds_requests THEN batch[w] ELSE <<>>
           resolved == {i \in 1 .. Len(hits) : resolve(hits[i])}
           requests == SelectAt(hits, resolved, 1)
           hit_count == Len(requests)
       IN  /\ no_site' = no_site + (Len(hits) - hit_count)
           /\ sites_ignored' = sites_ignored \cup ignored_hosts(hits)
           /\ IF hit_count > 0
              THEN /\ payload' = [payload EXCEPT ![w] = requests]
                   /\ sent' = [sent EXCEPT ![w] = @ \o requests]
                   /\ wpc' = [wpc EXCEPT ![w] = "call"]
                   /\ errors' = [errors EXCEPT ![w] = 0]
                   /\ UNCHANGED <<posts, sleeps, refreshes, lastCode, lastFail,
                                  lastPost>>
                   /\ UNCHANGED <<batch, rest, unfinished>>
              ELSE \* stats.count_lines_recorded.advance(0)
                   /\ AfterRecord(w)
                   /\ UNCHANGED <<payload, sent, callVars>>
    /\ UNCHANGED <<options, hashseed, since_sleep, auxVars, parserVars, queue, exitCode, fatal,
                   recorded>>

\* _record_hits when resolver.resolve raises in _get_hit_args of the hit
\* at position k: DynamicResolver._get_site_id_from_hit_host re-raises every
\* URLError that is no 404, _run_bulk and _run_single catch
\* PiwikHttpBase.Error only, so the exception ends the recorder's thread
\* before task_done; the hits before k have been through _get_hit_args
ResolverRaises(w) ==
    /\ Running /\ wpc[w] = "record"
    /\ builds_requests /\ ~options.replay_tracking
    /\ \E k \in 1 .. Len(batch[w]) :
         LET before == SubSeq(batch[w], 1, k - 1)
             unresolved == {i \in 1 .. Len(before) : ~resolve(before[i])}
         IN  /\ no_site' = no_site + Cardinality(unresolved)
             /\ sites_ignored' = sites_ignored \cup ignored_hosts(before)
    /\ wpc' = [wpc EXCEPT ![w] = "dead"]
    /\ UNCHANGED <<options, hashseed, since_sleep, auxVars, parserVars, queue,
                   unfinished, batch, rest, payload, sent, callVars, exitCode,
                   fatal, recorded>>

\* ------------------------------------------------------------------------
\* PiwikHttpUrllib.call: _call_wrapper around _call_authentication_wrapper
\* ------------------------------------------------------------------------
\* _record_hits passes expected_content=None
ExpectedContent == None

\* HTTP status of a tracker response; 0 is an error without a status
\* (URLError, HTTPException, socket.timeout)
StatusChoices == {200, 400, 401, 500, 0}

\* fatal_error(error, filename, lineno): os._exit(1)
fatal_error(reason, filename, line) ==
    /\ exitCode' = 1
    /\ fatal' = [reason |-> reason, filename |-> filename, lineno |-> line]

\* piwik.call returned to _record_hits:
\* stats.count_lines_recorded.advance(hit_count)
CallReturns(w) ==
    /\ recorded' = recorded \cup Range(payload[w])
    /\ AfterRecord(w)
    /\ payload' = [payload EXCEPT ![w] = <<>>]
    /\ errors' = [errors EXCEPT ![w] = 0]
    /\ posts' = [posts EXCEPT ![w] = 0]
    /\ sleeps' = [sleeps EXCEPT ![w] = 0]
    /\ refreshes' = [refreshes EXCEPT ![w] = 0]
    /\ lastCode' = [lastCode EXCEPT ![w] = 0]
    /\ lastFail' = [lastFail EXCEPT ![w] = NoFail]
    /\ lastPost' = [lastPost EXCEPT ![w] = <<>>]
    /\ UNCHANGED <<sent, exitCode, fatal>>

\* a 400 ends the process at once, whatever the number of errors so far
CallFails_fatal400(w, code, tracked) ==
    /\ lastCode' = [lastCode EXCEPT ![w] = code]
    /\ lastFail' = [lastFail EXCEPT
                      ![w] = [requests |-> payload[w], tracked |-> tracked]]
    /\ errors' = [errors EXCEPT ![w] = @ + 1]
    /\ IF errors[w] + 1 = options.max_attempts \/ code = 400
       THEN /\ fatal_error(IF code = 400 THEN "status 400" ELSE "error",
                           batch[w][1].filename, batch[w][1].lineno)
            /\ wpc' = [wpc EXCEPT ![w] = "fatal"]
       ELSE /\ wpc' = [wpc EXCEPT ![w] = "sleep"]
            /\ UNCHANGED <<exitCode, fatal>>
    /\ UNCHANGED <<batch, rest, unfinished, recorded, sent, sleeps, posts,
                   refreshes, lastPost>>

\* the diagnostic names the first request of the payload, not the first hit
CallFails_firstRequest(w, code, tracked) ==
    /\ lastCode' = [lastCode EXCEPT ![w] = code]
    /\ lastFail' = [lastFail EXCEPT
                      ![w] = [requests |-> payload[w], tracked |-> tracked]]
    /\ errors' = [errors EXCEPT ![w] = @ + 1]
    /\ IF errors[w] + 1 = options.max_attempts
       THEN /\ fatal_error(IF code = 400 THEN "status 400" ELSE "error",
                           payload[w][1].filename, payload[w][1].lineno)
            /\ wpc' = [wpc EXCEPT ![w] = "fatal"]
       ELSE /\ wpc' = [wpc EXCEPT ![w] = "sleep"]
            /\ UNCHANGED <<exitCode, fatal>>
    /\ UNCHANGED <<batch, rest, unfinished, recorded, sent, sleeps, posts,
                   refreshes, lastPost>>

\* _call_wrapper's except clause; on the max_attempts-th error
\* PiwikHttpBase.Error reaches _record_hits (code 400) or _run_bulk /
\* _run_single, which both call fatal_error with the first hit of hits
CallFails(w, code, tracked) ==
    /\ lastCode' = [lastCode EXCEPT ![w] = code]
    /\ lastFail' = [lastFail EXCEPT
                      ![w] = [requests |-> payload[w], tracked |-> tracked]]
    /\ errors' = [errors EXCEPT ![w] = @ + 1]
    /\ IF errors[w] + 1 = options.max_attempts
       THEN /\ fatal_error(IF code = 400 THEN "status 400" ELSE "error",
                           batch[w][1].filename, batch[w][1].lineno)
            /\ wpc' = [wpc EXCEPT ![w] = "fatal"]
       ELSE /\ wpc' = [wpc EXCEPT ![w] = "sleep"]
            /\ UNCHANGED <<exitCode, fatal>>
    /\ UNCHANGED <<batch, rest, unfinished, recorded, sent, sleeps, posts,
                   refreshes, lastPost>>

\* a response with status 200 reaches _call_wrapper's check of
\* expected_response; only a response that differs from the expected one
\* is handed to on_failure
GotResponse(w, tracked) ==
    \* Recorder._on_tracking_failure: data["requests"] = data["requests"][tracked:]
    LET on_tracking_failure(requests, count) ==
            IF count >= 0 THEN Slice(requests, count) ELSE requests
    IN
    IF ExpectedContent # None /\ tracked # Len(payload[w])
    THEN /\ payload' = [payload EXCEPT
                          ![w] = on_tracking_failure(@, tracked)]
         /\ CallFails(w, 0, tracked)
    ELSE CallReturns(w)

\* what the backend answers to a POST: a status and, with the JSON body of
\* a 400 or 500, the number of leading requests it accepted
Responses(w) ==
    { [status |-> st, tracked |-> tr] :
        st \in StatusChoices, tr \in -1 .. Len(payload[w]) }
    \cap
    { r \in [status : StatusChoices, tracked : -1 .. Len(payload[w])] :
        \/ r.status \in {400, 500} /\ r.tracked \in 0 .. (Len(payload[w]) - 1)
        \/ r.status = 200 /\ r.tracked = Len(payload[w])
        \/ r.status \in {401, 0} /\ r.tracked = -1 }

\* a tracker request goes out: with --sleep-between-requests-ms it is one
\* more request since the recorder's last _throttle sleep (two stand for
\* two or more)
request_sent(n) ==
    IF options.sleep_between_requests_ms = NotGiven THEN n
    ELSE IF n < 2 THEN n + 1 ELSE 2

\* func(*args, **kwargs): the POST of one attempt is sent
Post(w) ==
    /\ Running /\ wpc[w] = "call"
    /\ errors[w] < MaxRetryBound
    /\ posts' = [posts EXCEPT ![w] = @ + 1]
    /\ since_sleep' = [since_sleep EXCEPT ![w] = request_sent(@)]
    /\ lastPost' = [lastPost EXCEPT ![w] = payload[w]]
    /\ wpc' = [wpc EXCEPT ![w] = "inflight"]
    /\ UNCHANGED <<options, hashseed, auxVars, statsVars, parserVars, queue, unfinished, batch,
                   rest, payload, sent, errors, sleeps, refreshes, lastCode,
                   lastFail, exitCode, fatal, recorded>>

\* the response of the attempt's first POST
Respond(w) ==
    /\ Running /\ wpc[w] = "inflight"
    /\ \E r \in Responses(w) :
         IF r.status = 200
         THEN GotResponse(w, r.tracked)
         ELSE IF r.status = 401
         THEN \* _call_authentication_wrapper catches the 401
              /\ lastCode' = [lastCode EXCEPT ![w] = 401]
              /\ wpc' = [wpc EXCEPT ![w] = "auth"]
              /\ UNCHANGED <<batch, rest, unfinished, payload, sent, errors,
                             sleeps, posts, refreshes, lastFail, lastPost,
                             exitCode, fatal, recorded>>
         ELSE CallFails(w, r.status, r.tracked) /\ UNCHANGED payload
    /\ UNCHANGED <<options, hashseed, since_sleep, auxVars, statsVars, parserVars, queue>>

\* config.init_token_auth() followed by the second func(*args, **kwargs);
\* outside replay mode _get_token_auth ends the process when the token
\* cannot be fetched
RefreshToken(w) ==
    /\ Running /\ wpc[w] = "auth"
    /\ refreshes' = [refreshes EXCEPT ![w] = @ + 1]
    /\ \/ /\ posts' = [posts EXCEPT ![w] = @ + 1]
          /\ since_sleep' = [since_sleep EXCEPT ![w] = request_sent(@)]
          /\ lastPost' = [lastPost EXCEPT ![w] = payload[w]]
          /\ wpc' = [wpc EXCEPT ![w] = "inflight2"]
          /\ UNCHANGED <<exitCode, fatal>>
       \/ /\ ~options.replay_tracking
          /\ fatal_error("token", None, -1)
          /\ wpc' = [wpc EXCEPT ![w] = "fatal"]
          /\ UNCHANGED <<posts, lastPost, since_sleep>>
    /\ UNCHANGED <<options, hashseed, auxVars, statsVars, parserVars, queue, unfinished, batch,
                   rest, payload, sent, errors, sleeps, lastCode, lastFail,
                   recorded>>

\* a 401 on the repeated POST is caught again and refreshes the token again
RespondAgain_reauth(w) ==
    /\ Running /\ wpc[w] = "inflight2"
    /\ \E r \in Responses(w) :
         IF r.status = 200
         THEN GotResponse(w, r.tracked)
         ELSE IF r.status = 401
         THEN /\ lastCode' = [lastCode EXCEPT ![w] = 401]
              /\ wpc' = [wpc EXCEPT ![w] = "auth"]
              /\ UNCHANGED <<batch, rest, unfinished, payload, sent, errors,
                             sleeps, posts, refreshes, lastFail, lastPost,
                             exitCode, fatal, recorded>>
         ELSE CallFails(w, r.status, r.tracked) /\ UNCHANGED payload
    /\ UNCHANGED <<options, hashseed, since_sleep, auxVars, statsVars, parserVars, queue>>

\* the response of the POST repeated after the token refresh; any error,
\* a second 401 included, leaves _call_authentication_wrapper
RespondAgain(w) ==
    /\ Running /\ wpc[w] = "inflight2"
    /\ \E r \in Responses(w) :
         IF r.status = 200
         THEN GotResponse(w, r.tracked)
         ELSE CallFails(w, r.status, r.tracked) /\ UNCHANGED payload
    /\ UNCHANGED <<options, hashseed, since_sleep, auxVars, statsVars, parserVars, queue>>

\* time.sleep(delay_after_failure), then the next iteration of while True
RetrySleep(w) ==
    /\ Running /\ wpc[w] = "sleep"
    /\ sleeps' = [sleeps EXCEPT ![w] = @ + 1]
    /\ wpc' = [wpc EXCEPT ![w] = "call"]
    /\ UNCHANGED <<options, hashseed, since_sleep, auxVars, statsVars, parserVars, queue, unfinished, batch,
                   rest, payload, sent, errors, posts, refreshes, lastCode,
                   lastFail, lastPost, exitCode, fatal, recorded>>

\* ------------------------------------------------------------------------
\* The program
\* ------------------------------------------------------------------------
Next ==
    \/ ParseRejectedLine
    \/ ParseHit
    \/ EndOfFile
    \/ QueuePut
    \/ WaitEmptyCheck
    \/ WaitEmptyJoin
    \/ KeyboardInterrupt
    \/ PrintSummary
    \/ \E w \in Recorders : QueueGet(w)
    \/ \E w \in Recorders : RecordHits(w)
    \/ \E w \in Recorders : Post(w)
    \/ \E w \in Recorders : Respond(w)
    \/ \E w \in Recorders : RefreshToken(w)
    \/ \E w \in Recorders : RespondAgain(w)
    \/ \E w \in Recorders : RetrySleep(w)

Spec == Init /\ [][Next]_vars

\* ------------------------------------------------------------------------
\* The program started with --sleep-between-requests-ms
\* ------------------------------------------------------------------------
InitThrottle ==
    \* one recorder, every payload size, mode and max_attempts, with a sleep
    \* of one millisecond between requests
    LET ThrottleChoices ==
            [ recorders : {1},
              recorder_max_payload_size : 1 .. MaxPayloadSize,
              disable_bulk_tracking : BOOLEAN,
              max_attempts : 1 .. MaxRetryBound,
              replay_tracking : BOOLEAN,
              dry_run : {FALSE},
              sleep_between_requests_ms : {1} ]
    IN
    /\ \E opts \in ThrottleChoices : InitState(opts)
    /\ CounterInit
    /\ ResolverInit
    /\ LineInit(DefaultLineOptions) /\ FormatInit /\ FilesIdle /\ ArgsInit /\ ApiIdle

SpecThrottle == InitThrottle /\ [][Next]_vars

\* ------------------------------------------------------------------------
\* The program with a resolver whose API calls can fail, under fair
\* scheduling of its threads
\* ------------------------------------------------------------------------
InitLive ==
    \* one or two recorders with a dynamic resolver, bulk and single mode,
    \* calls that give up after max_attempts errors
    LET LiveChoices ==
            [ recorders : 1 .. MaxRecorders,
              recorder_max_payload_size : {1},
              disable_bulk_tracking : BOOLEAN,
              max_attempts : {1},
              replay_tracking : {FALSE},
              dry_run : {FALSE},
              sleep_between_requests_ms : {NotGiven} ]
            \cup
            [ recorders : {1},
              recorder_max_payload_size : {MaxPayloadSize},
              disable_bulk_tracking : BOOLEAN,
              max_attempts : 1 .. MaxRetryBound,
              replay_tracking : {FALSE},
              dry_run : {FALSE},
              sleep_between_requests_ms : {NotGiven} ]
    IN
    /\ \E opts \in LiveChoices : InitState(opts)
    /\ CounterInit
    /\ ResolverInit
    /\ LineInit(DefaultLineOptions) /\ FormatInit /\ FilesIdle /\ ArgsInit /\ ApiIdle

\* the steps of the main thread, without the interrupt
MainStep ==
    \/ ParseRejectedLine
    \/ ParseHit
    \/ EndOfFile
    \/ QueuePut
    \/ WaitEmptyCheck
    \/ WaitEmptyJoin
    \/ PrintSummary

\* the steps of a recorder's thread whose resolver calls succeed
RecorderStep(w) ==
    \/ QueueGet(w)
    \/ RecordHits(w)
    \/ Post(w)
    \/ Respond(w)
    \/ RefreshToken(w)
    \/ RespondAgain(w)
    \/ RetrySleep(w)

NextLive ==
    \/ MainStep
    \/ KeyboardInterrupt
    \/ \E w \in Recorders : RecorderStep(w)
    \/ \E w \in Recorders : ResolverRaises(w)

\* every thread that can run does run, and a request that was sent gets
\* its response or its error: a thread's step that stays possible is taken
Fairness ==
    /\ WF_vars(MainStep)
    /\ \A w \in 0 .. (MaxRecorders - 1) :
         WF_vars(w \in Recorders /\ (RecorderStep(w) \/ ResolverRaises(w)))

SpecLive == InitLive /\ [][NextLive]_vars /\ Fairness

\* the same program with a resolver whose API calls never fail
SpecLiveResolved ==
    InitLive /\ [][MainStep \/ KeyboardInterrupt
                     \/ \E w \in Recorders : RecorderStep(w)]_vars
             /\ WF_vars(MainStep)
             /\ \A w \in 0 .. (MaxRecorders - 1) :
                  WF_vars(w \in Recorders /\ RecorderStep(w))

\* ------------------------------------------------------------------------
\* The program started with --dry-run
\* ------------------------------------------------------------------------
InitDryRun ==
    \* the same recorder counts, payload sizes and modes with --dry-run
    LET DryRunChoices ==
            [ recorders : 1 .. MaxRecorders,
              recorder_max_payload_size : 1 .. MaxPayloadSize,
              disable_bulk_tracking : BOOLEAN,
              max_attempts : {1},
              replay_tracking : BOOLEAN,
              dry_run : {TRUE},
              sleep_between_requests_ms : {NotGiven} ]
    IN
    /\ \E opts \in DryRunChoices : InitState(opts)
    /\ CounterInit
    /\ ResolverInit
    /\ LineInit(DefaultLineOptions) /\ FormatInit /\ FilesIdle /\ ArgsInit /\ ApiIdle

\* the steps of the main thread and of the recorders up to _record_hits
NextDryRun ==
    \/ ParseRejectedLine
    \/ ParseHit
    \/ EndOfFile
    \/ QueuePut
    \/ WaitEmptyCheck
    \/ WaitEmptyJoin
    \/ KeyboardInterrupt
    \/ PrintSummary
    \/ \E w \in Recorders : QueueGet(w)
    \/ \E w \in Recorders : RecordHits(w)

SpecDryRun == InitDryRun /\ [][NextDryRun]_vars

\* ------------------------------------------------------------------------
\* Statistics.Counter, called from several threads
\* ------------------------------------------------------------------------
\* the recorder pipeline before any line is read, with the default options
PipelineIdle ==
    InitState([recorders |-> 1, recorder_max_payload_size |-> MaxPayloadSize,
               disable_bulk_tracking |-> FALSE, max_attempts |-> 1,
               replay_tracking |-> FALSE, dry_run |-> FALSE,
               sleep_between_requests_ms |-> NotGiven])

Budget ==
    LET RECURSIVE PendingUpTo(_)
        PendingUpTo(t) ==
            \* increments the calls in progress have still to make
            LET Pending(u) ==
                    IF tpc[u] = "next" THEN (IF todo[u] = 0 THEN 1 ELSE todo[u])
                    ELSE IF tpc[u] = "store" THEN (IF todo[u] = 0 THEN 0 ELSE todo[u] - 1)
                    ELSE 0
            IN
                          IF t = 0 THEN 0 ELSE Pending(t) + PendingUpTo(t - 1)
    IN
          MaxIncrements - (counter - 1) - PendingUpTo(MaxThreads)

\* a thread calls increment()
CounterIncrement(t) ==
    /\ tpc[t] = "idle"
    /\ Budget >= 1
    /\ tpc' = [tpc EXCEPT ![t] = "next"]
    /\ todo' = [todo EXCEPT ![t] = 0]
    /\ UNCHANGED <<notCounterVars, counter, value, tn>>

\* a thread calls advance(n): for i in range(n): self.increment()
CounterAdvance(t) ==
    /\ tpc[t] = "idle"
    /\ \E n \in 1 .. MaxAdvance :
         /\ Budget >= n
         /\ todo' = [todo EXCEPT ![t] = n]
    /\ tpc' = [tpc EXCEPT ![t] = "next"]
    /\ UNCHANGED <<notCounterVars, counter, value, tn>>

\* increment: next(self.counter), which itertools.count makes atomic
CounterNext(t) ==
    /\ tpc[t] = "next"
    /\ tn' = [tn EXCEPT ![t] = counter]
    /\ counter' = counter + 1
    /\ tpc' = [tpc EXCEPT ![t] = "store"]
    /\ UNCHANGED <<notCounterVars, value, todo>>

\* increment: self.value = <the result of next>, a separate bytecode; then
\* the next iteration of advance's loop, or the return
CounterStore(t) ==
    /\ tpc[t] = "store"
    /\ value' = tn[t]
    /\ tn' = [tn EXCEPT ![t] = 0]
    /\ IF todo[t] > 1
       THEN /\ todo' = [todo EXCEPT ![t] = @ - 1]
            /\ tpc' = [tpc EXCEPT ![t] = "next"]
       ELSE /\ todo' = [todo EXCEPT ![t] = 0]
            /\ tpc' = [tpc EXCEPT ![t] = "idle"]
    /\ UNCHANGED <<notCounterVars, counter>>

InitCounter ==
    PipelineIdle /\ CounterInit /\ ResolverInit /\ LineInit(DefaultLineOptions) /\ FormatInit /\ FilesIdle /\ ArgsInit /\ ApiIdle

NextCounter ==
    \/ \E t \in CounterThreads : CounterIncrement(t)
    \/ \E t \in CounterThreads : CounterAdvance(t)
    \/ \E t \in CounterThreads : CounterNext(t)
    \/ \E t \in CounterThreads : CounterStore(t)

SpecCounter == InitCounter /\ [][NextCounter]_vars

\* ------------------------------------------------------------------------
\* DynamicResolver.resolve outside replay mode, called by the recorder
\* threads from Recorder._get_hit_args
\* ------------------------------------------------------------------------
\* what the app-url endpoint answers for a host: 200 with the app, 404, 401
\* (token expired) or another error
ApiStatusChoices(host) ==
    (IF host = KnownHost THEN {200} ELSE {404}) \cup {401, 500}

\* _resolve_by_host: site_id = self._cache[hit.host]; a KeyError leads to
\* self._resolve(hit)
ResolveLookup(t) ==
    /\ rpc[t] = "idle"
    /\ rdone[t] < MaxResolves
    /\ rdone' = [rdone EXCEPT ![t] = @ + 1]
    /\ \E host \in ResolverHosts :
         IF host \in DOMAIN cache
         THEN UNCHANGED <<rpc, rhost>>
         ELSE /\ rpc' = [rpc EXCEPT ![t] = "api"]
              /\ rhost' = [rhost EXCEPT ![t] = host]
    /\ UNCHANGED <<notResolverVars, cache, api_calls>>

\* the end of _resolve_by_host after a response: self._cache[hit.host] =
\* site_id; an error other than 404 leaves resolve as an exception that
\* _run_bulk / _run_single do not catch, and the thread ends
ResolveAnswer(t, status) ==
    \* _resolve: the site id of a response (None after a 404)
    LET site_id_of(host, code) == IF code = 200 THEN "site-of-" \o host ELSE None
    IN
    IF status \in {200, 404}
    THEN /\ cache' = [h \in DOMAIN cache \cup {rhost[t]} |->
                        IF h = rhost[t] THEN site_id_of(h, status) ELSE cache[h]]
         /\ rpc' = [rpc EXCEPT ![t] = "idle"]
         /\ rhost' = [rhost EXCEPT ![t] = None]
    ELSE /\ rpc' = [rpc EXCEPT ![t] = "dead"]
         /\ rhost' = [rhost EXCEPT ![t] = None]
         /\ UNCHANGED cache

\* _get_site_id_from_hit_host: piwik.auth_call_api, the first request of
\* _call_authentication_wrapper
ResolveApiCall(t) ==
    /\ rpc[t] = "api"
    /\ api_calls' = [api_calls EXCEPT ![rhost[t]] = @ + 1]
    /\ \E status \in ApiStatusChoices(rhost[t]) :
         IF status = 401
         THEN /\ rpc' = [rpc EXCEPT ![t] = "reauth"]
              /\ UNCHANGED <<cache, rhost>>
         ELSE ResolveAnswer(t, status)
    /\ UNCHANGED <<notResolverVars, rdone>>

\* _call_authentication_wrapper after a 401: config.init_token_auth() and
\* the request again
ResolveApiCallAgain(t) ==
    /\ rpc[t] = "reauth"
    /\ \E status \in ApiStatusChoices(rhost[t]) : ResolveAnswer(t, status)
    /\ UNCHANGED <<notResolverVars, api_calls, rdone>>

InitResolver ==
    PipelineIdle /\ CounterInit /\ ResolverInit /\ LineInit(DefaultLineOptions) /\ FormatInit /\ FilesIdle /\ ArgsInit /\ ApiIdle

NextResolver ==
    \/ \E t \in ResolverThreads : ResolveLookup(t)
    \/ \E t \in ResolverThreads : ResolveApiCall(t)
    \/ \E t \in ResolverThreads : ResolveApiCallAgain(t)

SpecResolver == InitResolver /\ [][NextResolver]_vars

\* ------------------------------------------------------------------------
\* A run over the lines of one log, one line at a time: Parser.parse, then
\* Recorder._record_hits for the hit of the line, then print_summary
\* ------------------------------------------------------------------------
\* Parser.parse: one iteration of the readline loop, on a log of at most
\* max lines taken from a set of lines
ReadLineOf(lines, max) ==
    /\ lpc = "read"
    /\ stats["count_lines_parsed"] < max
    /\ IF stats["count_lines_parsed"] + 1 <= line_options.skip
       THEN /\ stats' = Increment(stats, {"count_lines_parsed"})
            /\ lines_skipped' = lines_skipped + 1
            /\ last_hit' = NoHit
            /\ outcome' = "skipped"
            /\ UNCHANGED <<lpc, last_line>>
       ELSE \E line \in lines :
              LET r == parse_line(line_options, line)
              IN  /\ stats' = Increment(stats, r.counted \cup {"count_lines_parsed"})
                  /\ last_line' = line
                  /\ last_hit' = r.hit
                  /\ outcome' = r.kind
                  /\ lpc' = IF r.kind = "accepted" THEN "record" ELSE "read"
                  /\ UNCHANGED lines_skipped
    /\ request' = NoArgsOfHit
    /\ UNCHANGED <<notLineVars, line_options, total_lines_ignored>>

ReadLine == ReadLineOf(LineChoices, MaxLogLines)

\* Recorder._record_hits of the hit: _get_hit_args, the tracker request
\* (which succeeds) and count_lines_recorded; an exception raised while
\* the arguments are built ends the recorder thread
RecordLine ==
    \* DynamicResolver.resolve: outside replay mode a hit whose host is empty
    \* gets the host "no-hostname-found-in-log"
    LET resolved_hit(opts, h) ==
            IF ~opts.replay_tracking /\ h.host = <<>>
            THEN [h EXCEPT !.host = <<"no-hostname-found-in-log">>]
            ELSE h
    \* resolver.resolve(hit) of the DynamicResolver: in replay mode the idsite
    \* of the logged request, otherwise the site of the host, None without one
        site_id_of_hit(opts, h) ==
            IF opts.replay_tracking THEN h.args["idsite"]
            ELSE IF h.host = KnownHostTokens THEN "3"
            ELSE None
    IN
    /\ lpc = "record"
    /\ LET hit_r == resolved_hit(line_options, last_hit)
           site_id == site_id_of_hit(line_options, hit_r)
       IN  IF site_id = None
           THEN /\ stats' = Increment(stats, {"count_lines_no_site"})
                /\ outcome' = "no_site"
                /\ request' = NoArgsOfHit
                /\ last_hit' = hit_r
                /\ lpc' = "read"
           ELSE LET b == get_hit_args(line_options, hit_r, site_id)
                IN  /\ last_hit' = add_custom_vars(line_options, hit_r)
                    /\ IF b.ok
                       THEN /\ stats' = Increment(stats, {"count_lines_recorded"})
                            /\ outcome' = "recorded"
                            /\ request' = b.args
                            /\ lpc' = "read"
                       ELSE /\ outcome' = "error"
                            /\ request' = NoArgsOfHit
                            /\ lpc' = "dead"
                            /\ UNCHANGED stats
    /\ UNCHANGED <<notLineVars, line_options, lines_skipped, last_line,
                   total_lines_ignored>>

\* the end of the file: main goes on to print_summary
PrintLineSummary ==
    \* Statistics.print_summary: total_lines_ignored
    LET sum_of_ignored(st) ==
            st["count_lines_invalid"] + st["count_lines_filtered"]
            + st["count_lines_skipped_user_agent"]
            + st["count_lines_skipped_http_errors"]
            + st["count_lines_skipped_http_redirects"] + st["count_lines_static"]
            + st["count_lines_skipped_downloads"] + st["count_lines_no_site"]
            + st["count_lines_hostname_skipped"]
    IN
    /\ lpc = "read"
    /\ lpc' = "done"
    /\ total_lines_ignored' = sum_of_ignored(stats)
    /\ UNCHANGED <<notLineVars, line_options, stats, lines_skipped, last_line,
                   last_hit, outcome, request>>

InitLine ==
    \* the command lines explored: the options of each group of filters are
    \* varied together, the others keep their defaults
    LET LineOptionsChoices ==
            { [DefaultLineOptions EXCEPT !.enable_static = es,
                                         !.download_extensions = de,
                                         !.extra_download_extensions = xe] :
                es \in BOOLEAN, de \in {<<>>, <<"pdf">>, <<"png">>},
                xe \in {<<>>, <<"foo">>} }
            \cup
            { [DefaultLineOptions EXCEPT !.replay_tracking = rt,
                                         !.enable_http_errors = he,
                                         !.enable_http_redirects = hr] :
                rt \in BOOLEAN, he \in BOOLEAN, hr \in BOOLEAN }
            \cup
            { [DefaultLineOptions EXCEPT !.hostnames = hn,
                                         !.excluded_paths = xp,
                                         !.included_paths = ip,
                                         !.skip = sk] :
                hn \in {{}, {KnownHostTokens}},
                xp \in {{}, {<<"/", "admin", "/", "*">>}},
                ip \in {{}, {<<"/", "index", ".", "html">>}},
                sk \in {0, 1} }
            \cup
            { [DefaultLineOptions EXCEPT !.exclude_host = xh,
                                         !.include_host = ih,
                                         !.exclude_older_than = older,
                                         !.enable_bots = eb] :
                xh \in {{}, {OtherHostTokens}}, ih \in {{}, {KnownHostTokens}},
                older \in {0, 172800}, eb \in BOOLEAN }
            \cup
            { [DefaultLineOptions EXCEPT !.exclude_older_than = older,
                                         !.exclude_newer_than = newer,
                                         !.seconds_to_add_to_date = add] :
                older \in {0, 172800}, newer \in {0, 172800},
                add \in {0, 3600, -60} }
            \cup
            { [DefaultLineOptions EXCEPT !.replay_tracking = TRUE,
                                         !.enable_static = es,
                                         !.replay_tracking_expected_tracker_file = tf] :
                es \in BOOLEAN,
                tf \in {<<>>, <<"track", ".", "php">>, <<"Track", ".", "php">>} }
            \cup
            { [DefaultLineOptions EXCEPT !.replay_tracking = rt,
                                         !.enable_bots = eb,
                                         !.excluded_useragents = xu] :
                rt \in BOOLEAN, eb \in BOOLEAN, xu \in {{}, {"MyAgent"}} }
    IN
    /\ PipelineIdle /\ CounterInit /\ ResolverInit /\ FormatInit /\ FilesIdle /\ ArgsInit /\ ApiIdle
    /\ \E opts \in LineOptionsChoices : LineInit(opts)

NextLine ==
    \/ ReadLine
    \/ RecordLine
    \/ PrintLineSummary

SpecLine == InitLine /\ [][NextLine]_vars

\* ------------------------------------------------------------------------
\* A run over lines that several filters look at, with the options of
\* several filters set together
\* ------------------------------------------------------------------------

CheckedLineChoices ==
    { [DefaultLine EXCEPT !.path = p, !.status = st, !.host = h,
                          !.user_agent = ua, !.date_ok = dt[1],
                          !.timezone = dt[2]] :
        p \in { <<"/", "index", ".", "html">>, <<"/", "img", ".", "PNG">>,
                <<"/", "doc", ".", "pdf">> },
        st \in { <<"2", "0", "0">>, <<"4", "0", "4">>, <<"3", "0", "1">> },
        h \in {KnownHostTokens, OtherHostTokens},
        ua \in { <<"Mozilla", "/", "5.0">>, <<"Googlebot", "/", "2.1">> },
        dt \in { <<TRUE, <<>>>>, <<FALSE, <<>>>>, <<TRUE, <<"U", "T", "C">>>>,
                 <<TRUE, <<"+", "0", "5", "3", "0">>>> } }

ReadCheckedLine == ReadLineOf(CheckedLineChoices, MaxCheckedLines)

InitChecks ==
    LET CheckedOptionsChoices ==
            { [DefaultLineOptions EXCEPT !.hostnames = hn,
                                         !.download_extensions = de,
                                         !.excluded_paths = xp,
                                         !.exclude_older_than = older,
                                         !.exclude_newer_than = newer,
                                         !.seconds_to_add_to_date = add] :
                hn \in {{}, {KnownHostTokens}},
                de \in {<<>>, <<"png">>},
                xp \in {{}, {<<"/", "img", "*">>}},
                older \in {0, 172800}, newer \in {0, 172800},
                add \in {0, 3600} }
    IN
    /\ PipelineIdle /\ CounterInit /\ ResolverInit /\ FormatInit /\ FilesIdle
    /\ ArgsInit /\ ApiIdle
    /\ \E opts \in CheckedOptionsChoices : LineInit(opts)

NextChecks ==
    \/ ReadCheckedLine
    \/ RecordLine
    \/ PrintLineSummary

SpecChecks == InitChecks /\ [][NextChecks]_vars

\* ------------------------------------------------------------------------
\* Format detection of one file
\* ------------------------------------------------------------------------
\* Parser.detect_format: check_format on the file
DetectFormat ==
    /\ fpc = "detect"
    /\ \E file \in FileChoices :
         /\ file_seen' = file
         /\ format_found' = check_format(file).format
         /\ iis_warned' = check_format(file).warned
    /\ fpc' = "done"
    /\ UNCHANGED notFormatVars

InitFormat ==
    PipelineIdle /\ CounterInit /\ ResolverInit
    /\ LineInit(DefaultLineOptions) /\ FormatInit /\ FilesIdle /\ ArgsInit /\ ApiIdle

NextFormat == DetectFormat

SpecFormat == InitFormat /\ [][NextFormat]_vars

\* ------------------------------------------------------------------------
\* main's loop over the input files, with --debug-request-limit
\* ------------------------------------------------------------------------

\* main: "for filename in config.filenames: parser.parse(filename)", up to
\* the readline loop of parse; after the last file main goes on to
\* wait_empty
MainNextFile ==
    /\ mpc = "main"
    /\ IF fileno < filenames
       THEN /\ fileno' = fileno + 1
            /\ valid_lines_count' = 0
            /\ file_hits' = <<>>
            /\ file_lineno' = -1
            /\ mpc' = "parse"
       ELSE /\ mpc' = "done"
            /\ UNCHANGED <<fileno, valid_lines_count, file_hits, file_lineno>>
    /\ UNCHANGED <<notFilesVars, debug_request_limit, filenames, created_hits,
                   added_hits, limit_exits>>

\* Parser.parse: one iteration of the readline loop
ParseFileLine ==
    \* Parser.parse: "config.options.debug_request_limit and valid_lines_count
    \* >= config.options.debug_request_limit"
    LET limit_reached(limit, count) == limit # 0 /\ count >= limit
    IN
    /\ mpc = "parse"
    /\ file_lineno + 1 < MaxFileLines
    /\ file_lineno' = file_lineno + 1
    /\ \E line \in LineChoices :
         LET r == parse_line(line_options, line)
             hit == [filename |-> fileno, lineno |-> file_lineno + 1]
         IN  IF r.kind = "no_match"
             THEN UNCHANGED <<valid_lines_count, file_hits, created_hits,
                              added_hits, limit_exits, mpc>>
             ELSE /\ valid_lines_count' = valid_lines_count + 1
                  /\ IF limit_reached(debug_request_limit, valid_lines_count + 1)
                     THEN /\ added_hits' = added_hits \o file_hits
                          /\ limit_exits' = limit_exits + 1
                          /\ mpc' = "main"
                          /\ UNCHANGED <<file_hits, created_hits>>
                     ELSE IF r.kind = "accepted"
                     THEN /\ created_hits' = Append(created_hits, hit)
                          /\ IF Len(file_hits) + 1 >= FlushThreshold
                             THEN /\ added_hits' = added_hits \o Append(file_hits, hit)
                                  /\ file_hits' = <<>>
                             ELSE /\ file_hits' = Append(file_hits, hit)
                                  /\ UNCHANGED added_hits
                          /\ UNCHANGED <<limit_exits, mpc>>
                     ELSE UNCHANGED <<file_hits, created_hits, added_hits,
                                      limit_exits, mpc>>
    /\ UNCHANGED <<notFilesVars, debug_request_limit, filenames, fileno>>

\* Parser.parse at the end of the file: the last chunk of hits
EndOfFileLines ==
    /\ mpc = "parse"
    /\ added_hits' = added_hits \o file_hits
    /\ mpc' = "main"
    /\ UNCHANGED <<notFilesVars, debug_request_limit, filenames, fileno,
                   file_lineno, valid_lines_count, file_hits, created_hits,
                   limit_exits>>

InitFiles ==
    \* the values of --debug-request-limit explored; 0 stands for the default
    \* None (both are false in "if config.options.debug_request_limit and ...")
    LET LimitChoices == 0 .. MaxFileLines
    IN
    /\ PipelineIdle /\ CounterInit /\ ResolverInit
    /\ LineInit(DefaultLineOptions) /\ FormatInit /\ ArgsInit /\ ApiIdle
    /\ \E limit \in LimitChoices : \E n \in 1 .. MaxFiles : FilesInit(limit, n)

NextFiles ==
    \/ MainNextFile
    \/ ParseFileLine
    \/ EndOfFileLines

SpecFiles == InitFiles /\ [][NextFiles]_vars

\* ------------------------------------------------------------------------
\* The parameters of one request through convert_array_args
\* ------------------------------------------------------------------------
\* a request whose parameters stand for a nested structure comes in
SerializeStructure ==
    \* the parameters of a structure: the top level has plain names
    LET serialize_structure(top) == serialize(<<ParamName>>, top.d[ParamName])
    IN
    /\ apc = "request"
    /\ \E top \in StructureChoices :
         /\ structure' = top
         /\ serialized' = serialize_structure(top)
    /\ apc' = "args"
    /\ UNCHANGED <<notArgsVars, converted>>

\* Recorder._get_hit_args: return UrlHelper.convert_array_args(args)
ConvertArrayArgs ==
    \* urllib.parse.parse_qs and "hit.args.update((k, v.pop()) ...)": a dict
    \* with one item for each name, the last value of the name, in the order
    \* the names first come
    LET RECURSIVE args_of(_, _)
        args_of(pairs, i) ==
            IF i = 0 THEN <<>>
            ELSE LET before == args_of(pairs, i - 1)
                     at == {j \in 1 .. Len(before) : before[j].k = pairs[i].k}
                 IN  IF at = {} THEN Append(before, pairs[i])
                     ELSE [j \in 1 .. Len(before) |->
                             IF j \in at THEN pairs[i] ELSE before[j]]
    IN
    /\ apc = "args"
    /\ converted' = convert_array_args(args_of(serialized, Len(serialized)))
    /\ apc' = "done"
    /\ UNCHANGED <<notArgsVars, structure, serialized>>

InitArgs ==
    /\ PipelineIdle /\ CounterInit /\ ResolverInit
    /\ LineInit(DefaultLineOptions) /\ FormatInit /\ FilesIdle
    /\ ArgsInit /\ ApiIdle

NextArgs ==
    \/ SerializeStructure
    \/ ConvertArrayArgs

SpecArgs == InitArgs /\ [][NextArgs]_vars

\* ------------------------------------------------------------------------
\* PiwikHttpUrllib's API calls, made by several threads that share
\* config.piwik_token.  The run is not a replay (a replay makes no API call),
\* and main has fetched the first token.

\* call_api / auth_call_api: the thread enters the call; _call_wrapper
\* starts with errors = 0
StartCall(t) ==
    /\ ~api_fatal
    /\ api_pc[t] = "idle"
    /\ api_done[t] < MaxApiCalls
    /\ \E e \in {"call_api", "auth_call_api"} :
         api_entry' = [api_entry EXCEPT ![t] = e]
    /\ api_errors' = [api_errors EXCEPT ![t] = 0]
    /\ api_second' = [api_second EXCEPT ![t] = FALSE]
    /\ api_exc' = [api_exc EXCEPT ![t] = "none"]
    /\ api_invalid' = [api_invalid EXCEPT ![t] = FALSE]
    /\ api_result' = [api_result EXCEPT ![t] = "none"]
    /\ api_pc' = [api_pc EXCEPT ![t] = "check"]
    /\ UNCHANGED <<notApiVars, api_options, piwik_token, tokens_issued,
                   api_fatal, api_headers, api_done, api_sent>>

\* _call_api: `if config.piwik_token:` on fresh headers
CheckToken(t) ==
    /\ ~api_fatal
    /\ api_pc[t] = "check"
    /\ api_headers' = [api_headers EXCEPT ![t] = NoAuthorization]
    /\ api_pc' = [api_pc EXCEPT ![t] =
                    IF piwik_token # 0 THEN "token_type" ELSE "call"]
    /\ UNCHANGED <<notApiVars, api_options, piwik_token, tokens_issued,
                   api_fatal, api_entry, api_second, api_errors, api_exc,
                   api_invalid, api_result, api_done, api_sent>>

\* _call_api: config.piwik_token["token_type"] and then
\* config.piwik_token["access_token"], two reads of the shared attribute;
\* subscripting None raises TypeError
ReadToken(t) ==
    /\ ~api_fatal
    /\ \/ /\ api_pc[t] = "token_type"
          /\ IF piwik_token = 0
             THEN /\ api_exc' = [api_exc EXCEPT ![t] = "TypeError"]
                  /\ api_pc' = [api_pc EXCEPT ![t] = "auth_except"]
                  /\ UNCHANGED api_headers
             ELSE /\ api_headers' = [api_headers EXCEPT ![t].token_type = piwik_token]
                  /\ api_pc' = [api_pc EXCEPT ![t] = "access_token"]
                  /\ UNCHANGED api_exc
       \/ /\ api_pc[t] = "access_token"
          /\ IF piwik_token = 0
             THEN /\ api_exc' = [api_exc EXCEPT ![t] = "TypeError"]
                  /\ api_pc' = [api_pc EXCEPT ![t] = "auth_except"]
                  /\ UNCHANGED api_headers
             ELSE /\ api_headers' = [api_headers EXCEPT
                                      ![t].scheme = "token",
                                      ![t].access_token = piwik_token]
                  /\ api_pc' = [api_pc EXCEPT ![t] = "call"]
                  /\ UNCHANGED api_exc
    /\ UNCHANGED <<notApiVars, api_options, piwik_token, tokens_issued,
                   api_fatal, api_entry, api_second, api_errors,
                   api_invalid, api_result, api_done, api_sent>>

\* _call_api from self._call on: _call builds the Request from the headers,
\* _handle_basic_auth's add_header replaces its Authorization header when
\* auth_user is set, the request is sent; the response is JSON, or a body
\* json.loads rejects (the except clause's result.decode raises
\* AttributeError, result being a str), or an HTTP 401, or another URLError
SendRequest(t) ==
    /\ ~api_fatal
    /\ api_pc[t] = "call"
    /\ api_sent' = api_sent \cup
         { IF api_options.auth_user
           THEN [scheme |-> "Basic", token_type |-> 0, access_token |-> 0]
           ELSE api_headers[t] }
    /\ \E response \in {"json", "invalid", "401", "URLError"} :
         \/ /\ response = "json"
            /\ api_result' = [api_result EXCEPT ![t] = "returned"]
            /\ api_done' = [api_done EXCEPT ![t] = @ + 1]
            /\ api_pc' = [api_pc EXCEPT ![t] = "idle"]
            /\ UNCHANGED <<api_exc, api_invalid>>
         \/ /\ response = "invalid"
            /\ api_exc' = [api_exc EXCEPT ![t] = "AttributeError"]
            /\ api_invalid' = [api_invalid EXCEPT ![t] = TRUE]
            /\ api_pc' = [api_pc EXCEPT ![t] = "auth_except"]
            /\ UNCHANGED <<api_result, api_done>>
         \/ /\ response = "401"
            /\ tokens_issued < MaxTokens
            /\ api_exc' = [api_exc EXCEPT ![t] = "HTTPError 401"]
            /\ api_pc' = [api_pc EXCEPT ![t] = "auth_except"]
            /\ UNCHANGED <<api_result, api_done, api_invalid>>
         \/ /\ response = "URLError"
            /\ api_exc' = [api_exc EXCEPT ![t] = "URLError"]
            /\ api_pc' = [api_pc EXCEPT ![t] = "auth_except"]
            /\ UNCHANGED <<api_result, api_done, api_invalid>>
    /\ UNCHANGED <<notApiVars, api_options, piwik_token, tokens_issued,
                   api_fatal, api_entry, api_headers, api_second, api_errors>>

\* _call_authentication_wrapper: `except urllib.error.URLError` with code
\* 401 calls config.init_token_auth() and the function again; what the
\* second call raises, and every other exception, goes to the caller
AuthenticationWrapper(t) ==
    /\ ~api_fatal
    /\ api_pc[t] = "auth_except"
    /\ IF api_exc[t] = "HTTPError 401" /\ ~api_second[t]
       THEN /\ api_second' = [api_second EXCEPT ![t] = TRUE]
            /\ api_exc' = [api_exc EXCEPT ![t] = "none"]
            /\ api_pc' = [api_pc EXCEPT ![t] = "init_token_auth"]
       ELSE /\ api_pc' = [api_pc EXCEPT ![t] = "wrapper_except"]
            /\ UNCHANGED <<api_second, api_exc>>
    /\ UNCHANGED <<notApiVars, api_options, piwik_token, tokens_issued,
                   api_fatal, api_entry, api_headers, api_errors,
                   api_invalid, api_result, api_done, api_sent>>

\* Configuration.init_token_auth: piwik_token = None, then the token
\* _get_token_auth fetches from /auth/token; a URLError there is a
\* fatal_error, a body that is not JSON raises AttributeError as above
InitTokenAuth(t) ==
    /\ ~api_fatal
    /\ \/ /\ api_pc[t] = "init_token_auth"
          /\ piwik_token' = 0
          /\ api_pc' = [api_pc EXCEPT ![t] = "get_token_auth"]
          /\ UNCHANGED <<tokens_issued, api_fatal, api_exc, api_invalid>>
       \/ /\ api_pc[t] = "get_token_auth"
          /\ \E response \in {"json", "invalid", "URLError"} :
               \/ /\ response = "json"
                  /\ tokens_issued' = tokens_issued + 1
                  /\ piwik_token' = tokens_issued + 1
                  /\ api_pc' = [api_pc EXCEPT ![t] = "check"]
                  /\ UNCHANGED <<api_fatal, api_exc, api_invalid>>
               \/ /\ response = "invalid"
                  /\ api_exc' = [api_exc EXCEPT ![t] = "AttributeError"]
                  /\ api_pc' = [api_pc EXCEPT ![t] = "wrapper_except"]
                  /\ UNCHANGED <<piwik_token, tokens_issued, api_fatal,
                                 api_invalid>>
               \/ /\ response = "URLError"
                  /\ api_fatal' = TRUE
                  /\ api_pc' = [api_pc EXCEPT ![t] = "exit"]
                  /\ UNCHANGED <<piwik_token, tokens_issued, api_exc,
                                 api_invalid>>
    /\ UNCHANGED <<notApiVars, api_options, api_entry, api_headers,
                   api_second, api_errors, api_result, api_done, api_sent>>

\* _call_wrapper's except clause, reached from call_api only: URLError (and
\* its subclass HTTPError) is counted, and at max_attempts errors
\* PiwikHttpBase.Error is raised, else the call is made again after the
\* sleep; any other exception, and every exception of auth_call_api, leaves
\* the call
CallWrapper(t) ==
    /\ ~api_fatal
    /\ api_pc[t] = "wrapper_except"
    /\ IF api_entry[t] = "call_api" /\ api_exc[t] \in {"HTTPError 401", "URLError"}
       THEN /\ api_errors' = [api_errors EXCEPT ![t] = @ + 1]
            /\ IF api_errors[t] + 1 = api_options.max_attempts
               THEN /\ api_result' = [api_result EXCEPT ![t] = "PiwikHttpBase.Error"]
                    /\ api_done' = [api_done EXCEPT ![t] = @ + 1]
                    /\ api_pc' = [api_pc EXCEPT ![t] = "idle"]
                    /\ UNCHANGED <<api_second, api_exc>>
               ELSE /\ api_second' = [api_second EXCEPT ![t] = FALSE]
                    /\ api_exc' = [api_exc EXCEPT ![t] = "none"]
                    /\ api_pc' = [api_pc EXCEPT ![t] = "check"]
                    /\ UNCHANGED <<api_result, api_done>>
       ELSE /\ api_result' = [api_result EXCEPT ![t] = api_exc[t]]
            /\ api_done' = [api_done EXCEPT ![t] = @ + 1]
            /\ api_pc' = [api_pc EXCEPT ![t] = "idle"]
            /\ UNCHANGED <<api_errors, api_second, api_exc>>
    /\ UNCHANGED <<notApiVars, api_options, piwik_token, tokens_issued,
                   api_fatal, api_entry, api_headers, api_invalid, api_sent>>

\* main has called config.init_token_auth(): the first token is in place
InitApi ==
    /\ PipelineIdle /\ CounterInit /\ ResolverInit
    /\ LineInit(DefaultLineOptions) /\ FormatInit /\ FilesIdle /\ ArgsInit
    /\ api_options \in [auth_user : BOOLEAN, max_attempts : 1 .. MaxRetryBound]
    /\ piwik_token = 1
    /\ tokens_issued = 1
    /\ api_fatal = FALSE
    /\ api_pc = [t \in 0 .. (MaxThreads - 1) |-> "idle"]
    /\ api_entry = [t \in 0 .. (MaxThreads - 1) |-> "auth_call_api"]
    /\ api_headers = [t \in 0 .. (MaxThreads - 1) |-> NoAuthorization]
    /\ api_second = [t \in 0 .. (MaxThreads - 1) |-> FALSE]
    /\ api_errors = [t \in 0 .. (MaxThreads - 1) |-> 0]
    /\ api_exc = [t \in 0 .. (MaxThreads - 1) |-> "none"]
    /\ api_invalid = [t \in 0 .. (MaxThreads - 1) |-> FALSE]
    /\ api_result = [t \in 0 .. (MaxThreads - 1) |-> "none"]
    /\ api_done = [t \in 0 .. (MaxThreads - 1) |-> 0]
    /\ api_sent = {}

NextApi ==
    \E t \in 0 .. (MaxThreads - 1) :
        \/ StartCall(t)
        \/ CheckToken(t)
        \/ ReadToken(t)
        \/ SendRequest(t)
        \/ AuthenticationWrapper(t)
        \/ InitTokenAuth(t)
        \/ CallWrapper(t)

SpecApi == InitApi /\ [][NextApi]_vars

\* ------------------------------------------------------------------------
\* Definitions used by the properties
\* ------------------------------------------------------------------------
IsPrefix(s, t) == Len(s) <= Len(t) /\ s = SubSeq(t, 1, Len(s))

\* the hits flushed so far that are routed to recorder w and have a site,
\* in the parser's order
RoutedTo(w) == SelectSeq(flushed, LAMBDA h : ShardOf(h) = w /\ resolve(h))

\* func invocations made so far by the _call_wrapper of recorder w
Attempts(w) ==
    errors[w] + (IF wpc[w] \in {"inflight", "auth", "inflight2"} THEN 1 ELSE 0)

\* every hit a recorder holds: queued, being recorded or still to record
HeldBy(w) ==
    UNION { Range(queue[w][i]) : i \in 1 .. Len(queue[w]) }
    \cup Range(batch[w]) \cup Range(rest[w]) \cup Range(sent[w])

\* ------------------------------------------------------------------------
\* C1: each recorder hands its hits to the tracker in the parser's order:
\* what recorder w has sent is always a prefix of the flushed hits routed to
\* w (those the resolver maps to a site), and it is all of them once
\* wait_empty has returned.
\* ------------------------------------------------------------------------
C1_ShardOrder ==
    \A w \in Recorders :
        /\ IsPrefix(sent[w], RoutedTo(w))
        /\ (ppc \in {"stop", "done"} /\ ~interrupted) => sent[w] = RoutedTo(w)

C1_Witness ==
    /\ options.recorders = 2
    /\ \E w \in Recorders : \E v \in Recorders :
         /\ w # v
         /\ Len(sent[w]) >= 2
         /\ Len(sent[v]) >= 1
         /\ sent[v][1].lineno < sent[w][2].lineno
         /\ sent[w][1].lineno < sent[v][1].lineno

\* ------------------------------------------------------------------------
\* C2: add_hits partitions the flushed batch: every hit of the batch is in
\* exactly one group, exactly once; the group is the one numbered
\* |hash(visitor id)| mod N, the visitor id being the client IP or, in
\* replay mode, the first present of uid, cid, _id, cip; and every hit a
\* recorder ever holds belongs to that shard, so two hits of one visitor
\* are always with the same recorder.
\* ------------------------------------------------------------------------
VisitorIdOf(h) ==
    LET present == {i \in 1 .. 4 : ReplayIdParams[i] \in DOMAIN h.args}
    IN  IF options.replay_tracking /\ present # {}
        THEN h.args[ReplayIdParams[CHOOSE i \in present :
                                       \A j \in present : i <= j]]
        ELSE h.ip

Places(h) ==
    { <<w, k>> \in Recorders \X (1 .. Len(buf)) :
          k <= Len(groups[w]) /\ groups[w][k] = h }

C2_Partition ==
    /\ \A w \in Recorders : \A h \in HeldBy(w) \cup Range(groups[w]) :
           Abs(hashseed[VisitorIdOf(h)]) % options.recorders = w
    /\ \A w \in Recorders : \A v \in Recorders :
       \A h1 \in HeldBy(w) : \A h2 \in HeldBy(v) :
           VisitorIdOf(h1) = VisitorIdOf(h2) => w = v
    /\ ppc = "put" =>
         /\ \A i \in 1 .. Len(buf) : Cardinality(Places(buf[i])) = 1
         /\ \A w \in Recorders : Range(groups[w]) \subseteq Range(buf)
         /\ \A w \in Recorders :
              Cardinality(Range(groups[w])) = Len(groups[w])

C2_Witness ==
    /\ ppc = "put"
    /\ options.replay_tracking
    /\ options.recorders = 2
    /\ \E w \in Recorders : \E v \in Recorders :
         /\ w # v
         /\ groups[v] # <<>>
         /\ \E i \in 1 .. Len(groups[w]) : \E j \in 1 .. Len(groups[w]) :
              /\ groups[w][i].ip # groups[w][j].ip
              /\ VisitorIdOf(groups[w][i]) = VisitorIdOf(groups[w][j])

\* ------------------------------------------------------------------------
\* C3: in bulk mode, the retry that follows a failed attempt whose response
\* reported tracked = K carries only the requests from index K onward of
\* the failed attempt's requests.
\* ------------------------------------------------------------------------
C3_RetrySendsSuffix ==
    \A w \in Recorders :
        (Bulk /\ wpc[w] = "inflight" /\ lastFail[w].tracked >= 0)
            => lastPost[w] = Slice(lastFail[w].requests, lastFail[w].tracked)

\* ------------------------------------------------------------------------
\* C4: a call through the retry wrapper makes at most max_attempts
\* attempts (the first one is always made), sleeps only between attempts,
\* and once max_attempts attempts have failed it has stopped with the
\* structured error (which ends the process), for every configured
\* max_attempts.
\* ------------------------------------------------------------------------
C4_AtMostMaxAttempts ==
    \A w \in Recorders :
        /\ Attempts(w) <= (IF options.max_attempts >= 1
                           THEN options.max_attempts ELSE 1)
        /\ sleeps[w] < options.max_attempts \/ sleeps[w] = 0
        /\ (errors[w] > 0 /\ errors[w] >= options.max_attempts)
               => exitCode = 1

\* ------------------------------------------------------------------------
\* C5 (as claimed): as soon as the tracker has answered a request with
\* HTTP 400 the process has exited with code 1: no sleep and no further
\* attempt follow the 400.
\* ------------------------------------------------------------------------
C5_ExitOnFirst400 ==
    \A w \in Recorders : lastCode[w] = 400 => exitCode = 1

\* ------------------------------------------------------------------------
\* C5 (amended): a 400 is an error like any other for the retry wrapper;
\* the run ends with the "status 400" diagnostic exactly when the
\* max_attempts-th failed attempt of a call was answered with 400, with
\* exit code 1 and the restart hint at the first hit of the batch, and a
\* 400 on an earlier attempt leaves the call in its retry loop.
\* ------------------------------------------------------------------------
C5_ExitOn400AfterRetries ==
    /\ \A w \in Recorders :
         (lastCode[w] = 400 /\ errors[w] = options.max_attempts)
             => /\ exitCode = 1
                /\ fatal = [reason |-> "status 400",
                            filename |-> batch[w][1].filename,
                            lineno |-> batch[w][1].lineno]
    /\ \A w \in Recorders :
         (lastCode[w] = 400 /\ errors[w] # options.max_attempts)
             => wpc[w] \in {"sleep", "call", "inflight"}
    /\ fatal.reason = "status 400" =>
         \E w \in Recorders :
             /\ wpc[w] = "fatal"
             /\ lastCode[w] = 400
             /\ errors[w] = options.max_attempts

C5_Witness ==
    /\ exitCode = 1
    /\ fatal.reason = "status 400"
    /\ \E w \in Recorders : wpc[w] = "fatal" /\ sleeps[w] = 1 /\ posts[w] = 2

\* ------------------------------------------------------------------------
\* C6: when a recorder's tracker call has used up its attempts the process
\* has exited with code 1, the diagnostic names the file and the line
\* number of the first hit of the batch handed to _record_hits (the lowest
\* line number of the batch), and no hit of the batch is counted as
\* recorded.
\* ------------------------------------------------------------------------
C6_FatalOnExhaustion ==
    \A w \in Recorders :
        (wpc[w] = "fatal" /\ fatal.reason # "token")
            => /\ exitCode = 1
               /\ errors[w] = options.max_attempts
               /\ fatal.filename = Filename
               /\ fatal.lineno = batch[w][1].lineno
               /\ \A h \in Range(batch[w]) : fatal.lineno <= h.lineno
               /\ Range(batch[w]) \cap recorded = {}

C6_Witness ==
    /\ exitCode = 1
    /\ recorded # {}
    /\ \E w \in Recorders :
         /\ wpc[w] = "fatal"
         /\ fatal.reason = "error"
         /\ Len(batch[w]) = 2
         /\ ~resolve(batch[w][1])

\* ------------------------------------------------------------------------
\* C7 (as claimed): within one piwik.call the token is refreshed at most
\* once, and after the repeated request was answered with 401 too no
\* further request of that call is sent.
\* ------------------------------------------------------------------------
C7_OneRefreshPerCall ==
    \A w \in Recorders :
        /\ refreshes[w] <= 1
        /\ ~(lastCode[w] = 401 /\ wpc[w] = "inflight")

\* ------------------------------------------------------------------------
\* C7 (amended): within one attempt of the retry wrapper a 401 makes
\* exactly one token refresh and one repetition of the request; a second
\* 401 ends the attempt as a failed one, so a call makes at most one
\* refresh per attempt and at most two requests per attempt.
\* ------------------------------------------------------------------------
C7_OneRefreshPerAttempt ==
    \A w \in Recorders :
        /\ refreshes[w] <= Attempts(w) + (IF wpc[w] = "fatal" THEN 1 ELSE 0)
        /\ posts[w] <= Attempts(w) + refreshes[w]
        /\ wpc[w] = "auth" => posts[w] = errors[w] + 1 + refreshes[w]
        /\ wpc[w] = "inflight2" => posts[w] = errors[w] + 1 + refreshes[w]

C7_Witness ==
    \E w \in Recorders :
        /\ wpc[w] = "sleep"
        /\ lastCode[w] = 401
        /\ refreshes[w] = 1
        /\ posts[w] = 2

\* ------------------------------------------------------------------------
\* C8: when Recorder.wait_empty has returned, every recorder's queue is
\* empty, every item taken has been marked done and no recorder is in the
\* middle of a batch; the recorders already waited for are in that state
\* while the later ones are waited for.
\* ------------------------------------------------------------------------
Drained(w) ==
    /\ queue[w] = <<>>
    /\ unfinished[w] = 0
    /\ wpc[w] = "get"
    /\ batch[w] = <<>> /\ rest[w] = <<>>

C8_WaitEmptyDrains ==
    /\ (ppc \in {"stop", "done"} /\ ~interrupted)
           => \A w \in Recorders : Drained(w)
    /\ ppc = "wait" => \A w \in Recorders : w < waiti => Drained(w)

C8_Witness ==
    /\ ppc = "stop" /\ ~interrupted
    /\ options.recorders = 2
    /\ \A w \in Recorders : sent[w] # <<>>

\* ------------------------------------------------------------------------
\* C9 (as claimed): when the summary is printed after a keyboard
\* interrupt, every batch that was enqueued has been processed to
\* completion.
\* ------------------------------------------------------------------------
C9_InterruptDrains ==
    (ppc = "done" /\ interrupted) => \A w \in Recorders : Drained(w)

\* ------------------------------------------------------------------------
\* C9 (amended): a keyboard interrupt stops the parser and skips
\* wait_empty: from the interrupt on the main thread only stops the
\* monitor and prints the summary, and the process ends with exit code 0
\* whether or not enqueued batches are still unprocessed.
\* ------------------------------------------------------------------------
C9_InterruptSkipsWait ==
    /\ interrupted =>
         /\ ppc \in {"stop", "done"}
         /\ buf = <<>> /\ ~joining
    /\ ppc = "done" => exitCode = 0

C9_Witness ==
    /\ ppc = "done" /\ interrupted /\ exitCode = 0
    /\ \E w \in Recorders : queue[w] # <<>> /\ wpc[w] = "inflight"

\* ------------------------------------------------------------------------
\* C10: in bulk mode no POST to the tracker carries more than
\* recorder_max_payload_size requests.
\* ------------------------------------------------------------------------
C10_PayloadBounded ==
    Bulk => \A w \in Recorders :
                Len(lastPost[w]) <= options.recorder_max_payload_size

NoSiteAt == {i \in 1 .. Len(flushed) : ~resolve(flushed[i])}

\* the hits handed to add_hits that no _record_hits has gone through yet
Unprocessed ==
    UNION { HeldBy(w) \ Range(sent[w]) : w \in {v \in Recorders : wpc[v] = "record"} }
    \cup UNION { UNION { Range(queue[w][i]) : i \in 1 .. Len(queue[w]) }
                 \cup Range(rest[w]) : w \in Recorders }
    \cup (IF ppc = "put"
          THEN UNION { Range(groups[w]) : w \in {v \in Recorders : v >= puti} }
          ELSE {})

C14_NoSiteDiscarded ==
    /\ \A w \in Recorders :
         \A h \in Range(sent[w]) \cup Range(payload[w]) \cup Range(lastPost[w]) :
             resolve(h)
    /\ \A h \in recorded : resolve(h)
    /\ ~interrupted =>
         LET done == {i \in NoSiteAt : flushed[i] \notin Unprocessed}
         IN  /\ no_site = Cardinality(done)
             /\ sites_ignored = {flushed[i].host : i \in done}

C14_Witness ==
    /\ Bulk /\ no_site = 2
    /\ sites_ignored = {UnknownHost}
    /\ \E w \in Recorders :
         /\ wpc[w] = "inflight"
         /\ Len(batch[w]) = 3 /\ Len(lastPost[w]) = 1
         /\ ~resolve(batch[w][1])

\* ------------------------------------------------------------------------
\* C12: under any interleaving of increment() and advance() calls of
\* several threads the counter's value never decreases, and whenever every
\* call has returned it equals the number of increments performed.
\* ------------------------------------------------------------------------
C12_CounterSafe ==
    [][ /\ value' >= value
        /\ (\A t \in CounterThreads : tpc'[t] = "idle") => value' = counter' - 1
      ]_vars

\* ------------------------------------------------------------------------
\* C13: with the dynamic resolver the app-url endpoint is called at most
\* once for each hostname (the request repeated after a 401 is part of the
\* same call), hostnames without a site included, also when
\* several recorder threads resolve hits of the same host at the same time.
\* ------------------------------------------------------------------------
C13_ApiOncePerHost ==
    \A h \in ResolverHosts : api_calls[h] <= 1

\* ------------------------------------------------------------------------
\* Definitions used by the properties of a line
\* ------------------------------------------------------------------------
\* the line read last gave a hit that was handed to the recorders
Enqueued == outcome \in {"accepted", "recorded", "no_site", "error"}

\* the line read last went through every check_* method
LeftFilterChain ==
    outcome \in {"invalid_date", "no_tracker_request", "missing_idsite",
                 "filtered", "accepted", "recorded", "no_site", "error"}

\* this step reads one line that is not skipped and matches the format
ReadsLine ==
    /\ stats'["count_lines_parsed"] = stats["count_lines_parsed"] + 1
    /\ outcome' \notin {"skipped", "no_match"}

\* how many times this step increments a counter
Counted(name) == stats'[name] - stats[name]

\* the files a replayed path is compared with
TrackerFiles ==
    IF line_options.replay_tracking_expected_tracker_file # <<>>
    THEN {line_options.replay_tracking_expected_tracker_file}
    ELSE { <<"piwik", ".", "php">>, <<"ppms", ".", "php">>, <<"/", "js", "/">>,
           <<"/", "js", "/", "tracker", ".", "php">> }

HasIdsite(query) == \E i \in 1 .. Len(query) : query[i].k = "idsite"

\* ------------------------------------------------------------------------
\* C15: at the normal end of a run every line read is accounted for once:
\* lines read = lines skipped + lines recorded + the ignored total of the
\* summary.
\* ------------------------------------------------------------------------
C15_LinesAccounted ==
    lpc = "done" =>
        stats["count_lines_parsed"]
            = lines_skipped + stats["count_lines_recorded"] + total_lines_ignored

\* ------------------------------------------------------------------------
\* C16: in replay mode every request sent has rec = 0 and carries every
\* parameter parsed from the logged query string, also when the logged
\* query string has a rec parameter of its own.
\* ------------------------------------------------------------------------
C16_ReplayRecZero ==
    (line_options.replay_tracking /\ outcome = "recorded") =>
        /\ request["rec"] = "0"
        /\ \A k \in DOMAIN parse_qs(last_hit.query) \ {"rec"} :
               k \in DOMAIN request /\ request[k] = parse_qs(last_hit.query)[k]

\* ------------------------------------------------------------------------
\* C17: the request of a hit tagged is_error or is_redirect has the
\* action_name "{status}{delim}URL = {quoted url}", followed by
\* "{delim}From = {quoted referrer}" only when the hit has a referrer; the
\* request of a hit with neither tag has no action_name.
\* ------------------------------------------------------------------------
C17_ActionName ==
    (~line_options.replay_tracking /\ outcome = "recorded") =>
        LET delim == line_options.title_category_delimiter
            url == <<"https", ":", "/", "/">> \o last_hit.host \o last_hit.path
                   \o (IF last_hit.query # <<>>
                       THEN <<"?">> \o query_string(last_hit.query) ELSE <<>>)
            expected == Join(last_hit.status) \o delim \o "URL = " \o quote(url)
                        \o (IF last_hit.referrer # <<>>
                            THEN delim \o "From = " \o quote(last_hit.referrer)
                            ELSE "")
        IN  IF last_hit.is_error \/ last_hit.is_redirect
            THEN /\ "action_name" \in DOMAIN request
                 /\ request["action_name"] = expected
            ELSE "action_name" \notin DOMAIN request

C19_DownloadExtension ==
    (LeftFilterChain /\ last_hit.is_download) =>
        \/ last_hit.extension \in download_extensions_of(line_options)
        \/ /\ line_options.enable_static
           /\ last_hit.extension \in STATIC_EXTENSIONS

\* a recorded download whose extension is a static one and not a download
\* extension
C19_Witness ==
    /\ outcome = "recorded"
    /\ last_hit.is_download
    /\ last_hit.extension \notin download_extensions_of(line_options)
    /\ line_options.extra_download_extensions # <<>>

\* ------------------------------------------------------------------------
\* C20: of the hits that reach check_http_error (no earlier filter dropped
\* them), one whose status starts with 4 or 5 is kept untagged in replay
\* mode, kept and tagged is_error with --enable-http-errors, and otherwise
\* dropped and counted in count_lines_skipped_http_errors; a hit with
\* another status is never tagged is_error.
\* ------------------------------------------------------------------------
C20_HttpError ==
    [][ ReadsLine =>
            LET h == last_hit'
                err == h.status[1] \in {"4", "5"}
                reached == /\ Counted("count_lines_skipped_downloads") = 0
                           /\ Counted("count_lines_hostname_skipped") = 0
                skipped == Counted("count_lines_skipped_http_errors")
            IN  /\ ~err => ~h.is_error /\ skipped = 0
                /\ (err /\ line_options.replay_tracking) =>
                       ~h.is_error /\ skipped = 0
                /\ (err /\ ~line_options.replay_tracking /\ reached) =>
                       IF line_options.enable_http_errors
                       THEN h.is_error /\ skipped = 0
                       ELSE ~h.is_error /\ skipped = 1 /\ outcome' = "excluded"
        ]_vars

\* a 404 recorded as an error, after a 404 for a file that the download
\* filter had dropped first
C20_Witness ==
    /\ outcome = "recorded"
    /\ last_hit.is_error
    /\ last_hit.status = <<"4", "0", "4">>
    /\ line_options.enable_http_errors

\* ------------------------------------------------------------------------
\* C21: a hit with status 304 is never tagged is_redirect and never counted
\* in count_lines_skipped_http_redirects, with and without
\* --enable-http-redirects; of the hits that reach check_http_redirect, one
\* with another status starting with 3 is tagged is_redirect with
\* --enable-http-redirects and otherwise dropped and counted in
\* count_lines_skipped_http_redirects; a hit with a status that does not
\* start with 3 is neither tagged nor counted.
\* ------------------------------------------------------------------------
C21_Redirect ==
    [][ ReadsLine =>
            LET h == last_hit'
                redirect == h.status[1] = "3" /\ h.status # <<"3", "0", "4">>
                reached == /\ Counted("count_lines_skipped_downloads") = 0
                           /\ Counted("count_lines_hostname_skipped") = 0
                           /\ Counted("count_lines_skipped_http_errors") = 0
                skipped == Counted("count_lines_skipped_http_redirects")
            IN  /\ ~redirect => ~h.is_redirect /\ skipped = 0
                /\ (redirect /\ reached) =>
                       IF line_options.enable_http_redirects
                       THEN h.is_redirect /\ skipped = 0
                       ELSE ~h.is_redirect /\ skipped = 1 /\ outcome' = "excluded"
        ]_vars

\* a 301 dropped by the redirect filter, then a 304 that is recorded
C21_Witness ==
    /\ ~line_options.enable_http_redirects
    /\ stats["count_lines_skipped_http_redirects"] = 1
    /\ outcome = "recorded"
    /\ last_hit.status = <<"3", "0", "4">>
    /\ ~last_hit.is_redirect

\* ------------------------------------------------------------------------
\* C22: for a line whose timezone is +HHMM or -HHMM, the date stored in the
\* hit is the parsed date plus seconds_to_add_to_date minus the offset,
\* where the offset is HH hours and MM minutes, both with the sign of the
\* timezone.
\* ------------------------------------------------------------------------
C22_StoredDate ==
    (/\ outcome \in {"filtered", "accepted", "recorded", "no_site"}
     /\ Len(last_line.timezone) = 5
     /\ last_line.timezone[1] \in {"+", "-"}) =>
        LET tz == last_line.timezone
            HH == 10 * DigitOf(tz[2]) + DigitOf(tz[3])
            MM == 10 * DigitOf(tz[4]) + DigitOf(tz[5])
            offset == IF tz[1] = "+" THEN HH * 3600 + MM * 60
                      ELSE 0 - (HH * 3600 + MM * 60)
        IN  last_hit.date
                = last_line.date + line_options.seconds_to_add_to_date - offset

\* a recorded hit of a line with the timezone -0530 and an --add-to-date
C22_Witness ==
    /\ outcome = "recorded"
    /\ last_line.timezone = <<"-", "0", "5", "3", "0">>
    /\ line_options.seconds_to_add_to_date = 3600
    /\ last_hit.date = 172800 + 3600 + 19800
    /\ request["cdt"] = "2024-01-03 06:30:00"

\* ------------------------------------------------------------------------
\* Definitions used by the properties of the format detection
\* ------------------------------------------------------------------------
\* the position of a format in FORMATS
PositionOf(name) == CHOOSE i \in 1 .. Len(FORMATS) : FORMATS[i] = name

\* the formats that auto-detection tries and that match the file
Matching ==
    {name \in FormatNames \ {"ovh"} : try_match(name, file_seen).matched}

\* the file of the IIS example: the IIS header and the seven fields
IisExampleFile ==
    /\ file_seen.fields_from = "header"
    /\ file_seen.header = "#Software: Microsoft IIS 7.5"
    /\ file_seen.fields = <<"date", "time", "c-ip", "cs-method", "cs-uri-stem",
                            "time-taken", "sc-status">>

\* ------------------------------------------------------------------------
\* C23 as stated: check_format returns, of the formats that match, the one
\* whose match has the most captured groups, the earliest in FORMATS among
\* those; a JSON match, which captures no group, is compared like the
\* others.
\* ------------------------------------------------------------------------
C23_MostGroupsFirst ==
    fpc = "done" =>
        LET groups_in(name) ==
                LET g == try_match(name, file_seen).groups
                IN  IF g < 0 THEN 0 ELSE g
        IN  IF Matching = {} THEN format_found = NoFormat
            ELSE /\ format_found \in Matching
                 /\ \A other \in Matching :
                       \/ groups_in(other) < groups_in(format_found)
                       \/ /\ groups_in(other) = groups_in(format_found)
                          /\ PositionOf(format_found) <= PositionOf(other)

\* ------------------------------------------------------------------------
\* C23 amended: of the regex formats that match with at least one captured
\* group, check_format returns the one with the most groups, the earliest
\* in FORMATS among those, and none when there is no such format; when the
\* JSON format matches, only the regex formats after it that have more
\* groups than every regex format before it are compared, and the JSON
\* format is returned when there is none.
\* ------------------------------------------------------------------------
C23_MostGroupsJsonApart ==
    fpc = "done" =>
        LET groups_in(name) == try_match(name, file_seen).groups
            regex == {name \in Matching : groups_in(name) > 0}
            json == "nginx_json" \in Matching
            before == {name \in regex : PositionOf(name) < PositionOf("nginx_json")}
            compared ==
                IF ~json THEN regex
                ELSE {name \in regex :
                        /\ PositionOf(name) > PositionOf("nginx_json")
                        /\ \A b \in before : groups_in(b) < groups_in(name)}
        IN  IF compared = {}
            THEN format_found = (IF json THEN "nginx_json" ELSE NoFormat)
            ELSE /\ format_found \in compared
                 /\ \A other \in compared :
                       \/ groups_in(other) < groups_in(format_found)
                       \/ /\ groups_in(other) = groups_in(format_found)
                          /\ PositionOf(format_found) <= PositionOf(other)

\* a line that is JSON and that a W3C expression with one group matches:
\* the JSON format is returned
C23_Witness ==
    /\ fpc = "done"
    /\ file_seen.is_json
    /\ "w3c_extended" \in Matching
    /\ try_match("w3c_extended", file_seen).groups = 1
    /\ format_found = "nginx_json"

\* ------------------------------------------------------------------------
\* C24 as stated: for the file with the header of IIS 7.5 and the fields
\* date time c-ip cs-method cs-uri-stem time-taken sc-status the format
\* detected is the IIS one, and without --w3c-time-taken-millisecs the
\* warning is logged.
\* ------------------------------------------------------------------------
C24_IisSelected ==
    (fpc = "done" /\ IisExampleFile) =>
        /\ format_found = "iis"
        /\ ~file_seen.w3c_time_taken_in_millisecs => iis_warned

\* ------------------------------------------------------------------------
\* C24 amended: for that file the format detected is the generic W3C
\* extended one, and the warning is logged exactly without
\* --w3c-time-taken-millisecs; with sc-win32-status among the fields the
\* format detected is the IIS one, without warning.
\* ------------------------------------------------------------------------
C24_W3cSelectedWithWarning ==
    /\ (fpc = "done" /\ IisExampleFile) =>
          /\ format_found = "w3c_extended"
          /\ iis_warned = ~file_seen.w3c_time_taken_in_millisecs
    /\ (/\ fpc = "done"
        /\ file_seen.fields_from = "header"
        /\ \E i \in 1 .. Len(file_seen.fields) :
              file_seen.fields[i] = "sc-win32-status") =>
          format_found = "iis" /\ ~iis_warned

\* the file of the example without the option: the warning is logged
C24_Witness ==
    /\ fpc = "done"
    /\ IisExampleFile
    /\ ~file_seen.w3c_time_taken_in_millisecs
    /\ format_found = "w3c_extended"
    /\ iis_warned


\* ------------------------------------------------------------------------
\* C25: with --dry-run no request ever goes to the tracker, in bulk and in
\* single mode, with one or several recorders, in replay mode or not: no
\* recorder ever builds a payload, starts a piwik.call or posts, and no hit
\* is counted as recorded, whatever the parser hands to the recorders.
\* ------------------------------------------------------------------------
C25_DryRunSendsNothing ==
    options.dry_run =>
        /\ \A w \in Recorders :
             /\ wpc[w] \in {"get", "record"}
             /\ payload[w] = <<>> /\ sent[w] = <<>>
             /\ posts[w] = 0 /\ lastPost[w] = <<>>
        /\ recorded = {}

C25_Witness ==
    /\ options.dry_run /\ ~Bulk
    /\ options.recorders = 2
    /\ ppc = "stop" /\ ~interrupted
    /\ Len(flushed) = 2
    /\ \E i \in 1 .. 2 : resolve(flushed[i])
    /\ \A w \in Recorders : Drained(w)


\* ------------------------------------------------------------------------
\* C26: with debug_request_limit = N, the step on which the N-th
\* format-matching line of a file is seen passes the buffered hits to
\* Recorder.add_hits and leaves parse without making a hit of that line,
\* and from then on no line, of this file or of a later one, is turned
\* into a hit: no Hit is created and nothing more is passed to add_hits.
\* ------------------------------------------------------------------------
C26_StopsAtLimit ==
    [][ /\ limit_exits' > limit_exits =>
            /\ valid_lines_count' = debug_request_limit
            /\ added_hits' = added_hits \o file_hits
            /\ created_hits' = created_hits
            /\ mpc' = "main"
        /\ limit_exits > 0 =>
            /\ created_hits' = created_hits
            /\ added_hits' = added_hits
      ]_vars


\* ------------------------------------------------------------------------
\* Bots
\* ------------------------------------------------------------------------
\* the user agent contains, case-insensitively, an entry of the built-in
\* list or of the --useragent-exclude additions
BotAgent(ua) ==
    \E i \in 1 .. Len(ua) :
        \E entry \in EXCLUDED_USER_AGENTS \cup line_options.excluded_useragents :
            Lower(ua[i]) = Lower(entry)

\* the hit the step reads went through every filter before check_user_agent
ReachedUserAgentCheck ==
    /\ Counted("count_lines_skipped_downloads") = 0
    /\ Counted("count_lines_hostname_skipped") = 0
    /\ Counted("count_lines_skipped_http_errors") = 0
    /\ Counted("count_lines_skipped_http_redirects") = 0
    /\ Counted("count_lines_static") = 0
    /\ check_path(line_options, last_hit').ok

\* what check_user_agent does with the hits that reach it
UserAgentChecked ==
    ReadsLine =>
        LET h == last_hit'
            skipped == Counted("count_lines_skipped_user_agent")
        IN  /\ ~BotAgent(h.user_agent) => ~h.is_robot /\ skipped = 0
            /\ (BotAgent(h.user_agent) /\ ReachedUserAgentCheck) =>
                   IF line_options.enable_bots
                   THEN h.is_robot /\ skipped = 0 /\ outcome' # "excluded"
                   ELSE ~h.is_robot /\ skipped = 1 /\ outcome' = "excluded"

\* this step builds the tracker request of a hit tagged as a robot
RecordsRobot ==
    /\ lpc = "record" /\ outcome' = "recorded"
    /\ last_hit.is_robot

C28_LeftInverse ==
    apc = "done" => converted = structure


\* ------------------------------------------------------------------------
\* The order of the filters
\* ------------------------------------------------------------------------
\* the order of the claim: hostname, static, download, user agent, HTTP
\* error, HTTP redirect, path
ClaimedOrder ==
    <<"check_hostname", "check_static", "check_download", "check_user_agent",
      "check_http_error", "check_http_redirect", "check_path">>

\* the order of the names
NameOrder ==
    <<"check_download", "check_hostname", "check_http_error",
      "check_http_redirect", "check_path", "check_static", "check_user_agent">>

\* the counter a filter increments when it rejects a hit (check_path has
\* none)
RejectionCounter(method) ==
    CASE method = "check_download" -> {"count_lines_skipped_downloads"}
      [] method = "check_hostname" -> {"count_lines_hostname_skipped"}
      [] method = "check_http_error" -> {"count_lines_skipped_http_errors"}
      [] method = "check_http_redirect" -> {"count_lines_skipped_http_redirects"}
      [] method = "check_path" -> {}
      [] method = "check_static" -> {"count_lines_static"}
      [] method = "check_user_agent" -> {"count_lines_skipped_user_agent"}

RejectionCounters == UNION {RejectionCounter(NameOrder[i]) : i \in 1 .. 7}

\* the tags a filter may set on a hit
TagsOf(method) ==
    CASE method = "check_download" -> {"is_download"}
      [] method = "check_static" -> {"is_download"}
      [] method = "check_http_error" -> {"is_error"}
      [] method = "check_http_redirect" -> {"is_redirect"}
      [] method = "check_user_agent" -> {"is_robot"}
      [] OTHER -> {}

\* the filters that, called alone on the hit of the line this step reads,
\* reject it, as positions in an order
Rejecting(order) ==
    {i \in 1 .. 7 : ~CallCheck(order[i], line_options, new_hit(last_line')).ok}

\* this step reads a line that a filter rejects: the line is dropped, it is
\* counted under the first filter of the order that rejects it and under
\* no other, and no filter after that one has tagged the hit or counted a
\* download
FirstRejectionOnly(order) ==
    (ReadsLine /\ Rejecting(order) # {}) =>
        LET first == CHOOSE i \in Rejecting(order) :
                         \A j \in Rejecting(order) : i <= j
            before == {order[j] : j \in 1 .. first - 1}
        IN  /\ outcome' = "excluded"
            /\ \A c \in RejectionCounters :
                   Counted(c) = IF c \in RejectionCounter(order[first]) THEN 1 ELSE 0
            /\ \A tag \in {"is_download", "is_error", "is_redirect", "is_robot"} :
                   last_hit'[tag] => \E m \in before : tag \in TagsOf(m)
            /\ Counted("count_lines_downloads") = 1 => "check_download" \in before
            /\ Counted("count_lines_invalid") = 0
            /\ Counted("count_lines_filtered") = 0

\* ------------------------------------------------------------------------
\* C29 (as claimed): the filters run in the order hostname, static,
\* download, user agent, HTTP error, HTTP redirect, path, and the first
\* rejection ends the chain: a hit that several filters would reject is
\* counted only under the first of them in that order and no later filter
\* leaves a tag or a count.
\* ------------------------------------------------------------------------
C29_ClaimedFilterOrder == [][FirstRejectionOnly(ClaimedOrder)]_vars

\* ------------------------------------------------------------------------
\* C29 (amended): the same with the order of the methods' names:
\* download, hostname, HTTP error, HTTP redirect, path, static, user
\* agent.
\* ------------------------------------------------------------------------
C29_NameFilterOrder == [][FirstRejectionOnly(NameOrder)]_vars

\* a 404 for an image of another host, with --hostname and
\* --download-extensions=png: counted as a download by check_download and
\* dropped by check_hostname, before the error and the static filter
C29_Witness ==
    /\ outcome = "excluded"
    /\ last_line.status = <<"4", "0", "4">>
    /\ last_line.path = <<"/", "img", ".", "PNG">>
    /\ last_line.host = OtherHostTokens
    /\ line_options.hostnames = {KnownHostTokens}
    /\ line_options.download_extensions = <<"png">>
    /\ stats["count_lines_downloads"] = 1
    /\ stats["count_lines_hostname_skipped"] = 1
    /\ stats["count_lines_skipped_http_errors"] = 0
    /\ stats["count_lines_static"] = 0
    /\ last_hit.is_download /\ ~last_hit.is_error


\* ------------------------------------------------------------------------
\* The date of a line
\* ------------------------------------------------------------------------
\* the offset of the timezones of the lines, in seconds
OffsetOf(timezone) ==
    IF timezone = <<"+", "0", "5", "3", "0">> THEN 5 * 3600 + 30 * 60 ELSE 0

\* the timezone of a line can be parsed
TimezoneOk(timezone) == timezone # <<"U", "T", "C">>

\* the date of a line after --add-to-date and the timezone
NormalizedDate(line) ==
    line.date + line_options.seconds_to_add_to_date - OffsetOf(line.timezone)

\* a date is outside the window of --exclude-older-than and
\* --exclude-newer-than
OutsideWindow(date) ==
    \/ line_options.exclude_older_than # 0 /\ date < line_options.exclude_older_than
    \/ line_options.exclude_newer_than # 0 /\ date > line_options.exclude_newer_than

\* ------------------------------------------------------------------------
\* C30: the date and the timezone of a line are parsed only after the line
\* has passed every check_* filter: a line that a filter rejects is dropped
\* by that filter and never counted as invalid, whatever its date and
\* timezone, while a line that passes the filters with a bad date or
\* timezone is counted as invalid; and the date-window filter decides on
\* the date after seconds_to_add_to_date was added and the timezone offset
\* subtracted.
\* ------------------------------------------------------------------------
C30_DateAfterFilters ==
    [][ ReadsLine =>
          LET line == last_line'
              bad == ~line.date_ok \/ ~TimezoneOk(line.timezone)
          IN  IF Rejecting(NameOrder) # {}
              THEN /\ outcome' = "excluded"
                   /\ Counted("count_lines_invalid") = 0
                   /\ Counted("count_lines_filtered") = 0
                   /\ last_hit'.date = 0
              ELSE IF bad
              THEN /\ outcome' = IF line.date_ok THEN "invalid_timezone"
                                 ELSE "invalid_date"
                   /\ Counted("count_lines_invalid") = 1
                   /\ Counted("count_lines_filtered") = 0
              ELSE /\ last_hit'.date = NormalizedDate(line)
                   /\ Counted("count_lines_invalid") = 0
                   /\ IF OutsideWindow(NormalizedDate(line))
                      THEN outcome' = "filtered" /\ Counted("count_lines_filtered") = 1
                      ELSE outcome' = "accepted" /\ Counted("count_lines_filtered") = 0
      ]_vars

\* a redirect with a date that cannot be parsed: dropped by the redirect
\* filter, not counted as invalid
C30_Witness ==
    /\ outcome = "excluded"
    /\ ~last_line.date_ok
    /\ last_line.status = <<"3", "0", "1">>
    /\ stats["count_lines_parsed"] = 1
    /\ stats["count_lines_skipped_http_redirects"] = 1
    /\ stats["count_lines_invalid"] = 0
    /\ last_hit.date = 0

\* ------------------------------------------------------------------------
\* C31
\* ------------------------------------------------------------------------
\* the hits of the batches of a queue
RECURSIVE HitsOfBatches(_)
HitsOfBatches(batches) ==
    IF batches = <<>> THEN 0
    ELSE Len(Head(batches)) + HitsOfBatches(Tail(batches))

\* the hits waiting in the queues of the recorders 0 .. r
RECURSIVE HitsQueuedUpTo(_)
HitsQueuedUpTo(r) ==
    IF r < 0 THEN 0 ELSE HitsOfBatches(queue[r]) + HitsQueuedUpTo(r - 1)

\* C31: a recorder's queue never holds more than 2 batches, and the hits in
\* the parser's list and in all queues together are at most
\* recorders * recorder_max_payload_size * (1 + 2 * recorders)
C31_Backpressure ==
    /\ \A r \in Recorders : Len(queue[r]) <= 2
    /\ Len(buf) + HitsQueuedUpTo(options.recorders - 1)
         <= options.recorders * options.recorder_max_payload_size
            * (1 + 2 * options.recorders)

\* the parser is in add_hits, blocked in the put on a queue that holds 2
\* batches
C31_Witness ==
    /\ ppc = "put"
    /\ Len(queue[puti]) = 2
    /\ Len(groups[puti]) > 0

\* ------------------------------------------------------------------------
\* C32
\* ------------------------------------------------------------------------
\* C32: Recorder._record_hits, which runs on the recorder thread, leaves
\* every field of the hit it was handed as it was
C32_HitImmutable ==
    [][lpc = "record" => last_hit' = last_hit]_vars

\* the same, for the host of the hit alone
C32_HostImmutable ==
    [][lpc = "record" => last_hit'.host = last_hit.host]_vars

\* ------------------------------------------------------------------------
\* Properties of the API calls

\* C33: every API request sent after the first token was fetched carries
\* the Authorization header built from one token that was issued:
\* token_type and access_token of the same token
C33_TokenHeaderOnEveryCall ==
    \A sent_header \in api_sent :
        /\ sent_header.scheme = "token"
        /\ sent_header.token_type \in 1 .. tokens_issued
        /\ sent_header.access_token = sent_header.token_type

\* C35: a call through call_api that got a response json.loads rejects
\* ends by returning or by raising PiwikHttpBase.Error, as every other
\* call through call_api does
C35_InvalidJsonIsRetried ==
    \A t \in 0 .. (MaxThreads - 1) :
        api_entry[t] = "call_api" /\ api_invalid[t]
            => api_result[t] \in {"none", "returned", "PiwikHttpBase.Error"}

\* ------------------------------------------------------------------------
\* Properties of the conversion of array arguments, second part

\* C34: in what convert_array_args returns, no mapping at any depth below
\* the top level has exactly the keys "0" .. "n-1": every such subtree has
\* become a list, also below a subtree that has become a list
C34_EverySubtreeConverted ==
    LET RECURSIVE fully_converted(_)
        fully_converted(node) ==
            CASE node.t = "dict" ->
                   /\ ~(\A i \in 0 .. Cardinality(DOMAIN node.d) - 1 :
                          ToString(i) \in DOMAIN node.d)
                   /\ \A key \in DOMAIN node.d : fully_converted(node.d[key])
              [] node.t = "list" ->
                   \A i \in 1 .. Len(node.l) : fully_converted(node.l[i])
              [] OTHER -> TRUE
    IN  (apc = "done" /\ converted.t = "dict")
            => \A key \in DOMAIN converted.d : fully_converted(converted.d[key])

\* ------------------------------------------------------------------------
\* Properties of the throttling

\* C36: with --sleep-between-requests-ms a recorder never sends two tracker
\* requests without a _throttle sleep between them
C36_SleepBetweenRequests ==
    \A w \in Recorders :
        options.sleep_between_requests_ms # NotGiven => since_sleep[w] <= 1

\* ------------------------------------------------------------------------
\* Properties of the termination

\* C37: a queue with items that are not marked done gets all of them marked
\* done, or the process ends; and wait_empty, once entered, returns, or
\* the process ends
C37_BatchesEventuallyDone ==
    /\ \A w \in 0 .. (MaxRecorders - 1) :
         (w \in Recorders /\ unfinished[w] > 0)
             ~> ((w \in Recorders /\ unfinished[w] = 0) \/ ~Running)
    /\ (ppc = "wait") ~> (ppc # "wait" \/ ~Running)

\* ------------------------------------------------------------------------
\* Properties of the restart hint

\* C38: when the process has ended with the hint --skip=L, every hit that
\* Parser.parse accepted from a line before L and that has a site is
\* counted as recorded
C38_RestartLosesNoHit ==
    (exitCode = 1 /\ fatal.lineno >= 0)
        => \A i \in 1 .. Len(accepted) :
               (accepted[i].lineno < fatal.lineno /\ resolve(accepted[i]))
                   => accepted[i] \in recorded

\* ------------------------------------------------------------------------
\* Properties of the payload

\* C39: a recorder inside piwik.call has a payload of at least one request,
\* every POST sent carries at least one request, its requests are hits of
\* the recorder's current batch that have a site, and only hits that have a
\* site are counted as recorded
C39_NoEmptyPayload ==
    /\ \A w \in Recorders :
         /\ wpc[w] \in {"call", "inflight", "auth", "inflight2", "sleep"}
                => payload[w] # <<>>
         /\ posts[w] > 0
                => /\ lastPost[w] # <<>>
                   /\ Range(lastPost[w]) \subseteq Range(batch[w])
                   /\ \A i \in 1 .. Len(lastPost[w]) : resolve(lastPost[w][i])
    /\ \A done \in recorded : resolve(done)

\* a run that ended after hits were accepted, none of which has a site:
\* every queue item was marked done and no request was ever sent
C39_Witness ==
    /\ ppc = "done" /\ exitCode = 0 /\ ~interrupted
    /\ Len(accepted) > 0
    /\ no_site = Len(accepted)
    /\ recorded = {}
    /\ \A w \in Recorders : sent[w] = <<>> /\ unfinished[w] = 0

====
